---- MODULE Spec2Model ----
(***************************************************************************)
(* Driver route-optimization engine: RouteService (optimize / clear /      *)
(* getCurrentRoute over the RouteOptimization row), RouteOptimizer (the    *)
(* algorithm selector and the heuristics), DistanceMatrix (formatting and  *)
(* route totals) and Geocoder (the address cache in front of the           *)
(* geocoding provider).                                                    *)
(*                                                                         *)
(* Conventions.  A call that raises a JavaScript exception has the result  *)
(* [tag |-> "throws"].  Texts built by template strings are tagged tuples: *)
(* <<"minutes", 45>> is                                                    *)
(* "45 minutes", <<"km", 15>> is "15 km", <<"m", 7>> is "7m",              *)
(* <<"hm", 1, 5>> is "1h 5m" and <<"km2", 123>> is "1.23 km".  Weights are *)
(* kept in tenths and scores are scaled by 144000 so that the comparisons  *)
(* of the code are made on integers.  The database calls (prisma) are      *)
(* taken to succeed; the providers (geocoding, distance matrix) may fail.  *)
(***************************************************************************)
EXTENDS Integers, Sequences, FiniteSets, TLC

VARIABLES
    algIn,      \* input of one run of a pure routine (selector / heuristic)
    algOut,     \* its output, NoResult before the run
    geocache,   \* the rows of table address_geocache
    resolving,  \* per caller: where its geocodeAddress call stands
    geoLog,     \* what the callers of the Geocoder have observed, in order
    picked,     \* per driver: how many PICKED_UP orders the driver holds
    optimizations,  \* the rows of table RouteOptimizations
    running,    \* per request: where its RouteService.optimizeRoute call stands
    clock,      \* what new Date() returns next
    passed,     \* the options the callers of the RouteService pass, forcing apart
    svcLog      \* what the callers of the RouteService have observed, in order

algVars == <<algIn, algOut>>
geoVars == <<geocache, resolving, geoLog>>
svcVars == <<picked, optimizations, running, clock, passed, svcLog>>
vars == <<algIn, algOut, geocache, resolving, geoLog,
          picked, optimizations, running, clock, passed, svcLog>>

NoValue == "none"
NoResult == [tag |-> "none"]

\* The callers that may be inside the Geocoder at the same time.
Callers == {"c1", "c2"}

idleCall == [pc |-> "idle", address |-> <<>>, pending |-> NoResult]

\* The parts of the state a specification does not exercise stay like this.
algIdle == algIn = [kind |-> NoValue] /\ algOut = NoResult
geoIdle == geocache = {} /\ resolving = [c \in Callers |-> idleCall] /\ geoLog = <<>>

\* The drivers of a run, and the requests that may be inside optimizeRoute
\* at once.
Drivers == DOMAIN picked
Requests == {"r1", "r2"}

idleRequest == [pc |-> "idle"]

svcIdle ==
    /\ picked = [d \in {} |-> 0]
    /\ optimizations = {}
    /\ running = [r \in Requests |-> idleRequest]
    /\ clock = 1
    /\ passed = [kind |-> NoValue]
    /\ svcLog = <<>>

(***************************************************************************)
(* Bounds of the model.                                                    *)
(***************************************************************************)
MaxCount == 27
MaxEntered == 8
MaxOrders == 3
MaxGeoEvents == 6
MaxSvcEvents == 5

(***************************************************************************)
(* RouteOptimizer: algorithm names and the selector.                       *)
(***************************************************************************)
PRIORITY_BASED == "priority"
NEAREST_NEIGHBOR == "nearest_neighbor"
GENETIC_ALGORITHM == "genetic"
OR_TOOLS_VRP == "or_tools"
HYBRID == "hybrid"

algorithms == {PRIORITY_BASED, NEAREST_NEIGHBOR, GENETIC_ALGORITHM, OR_TOOLS_VRP, HYBRID}

\* The service's own default, which is none of the optimizer's constants.
SERVICE_HYBRID == "HYBRID"

\* What a caller may pass as the algorithm option (NoValue: none named).
RequestedNames == algorithms \cup {NoValue, SERVICE_HYBRID}

\* The algorithm option after the destructuring default of optimizeRoute.
algorithmOption(requested) ==
    IF requested = NoValue THEN HYBRID ELSE requested

selectOptimalAlgorithm_ignoresRequest(orderCount, requestedAlgorithm) ==
    IF orderCount <= 3 THEN PRIORITY_BASED
    ELSE IF orderCount <= 10 THEN NEAREST_NEIGHBOR
    ELSE IF orderCount <= 25 THEN GENETIC_ALGORITHM
    ELSE OR_TOOLS_VRP

selectOptimalAlgorithm(orderCount, requestedAlgorithm) ==
    IF requestedAlgorithm # NoValue /\ requestedAlgorithm # HYBRID
    THEN requestedAlgorithm
    ELSE IF orderCount <= 3 THEN PRIORITY_BASED
    ELSE IF orderCount <= 10 THEN NEAREST_NEIGHBOR
    ELSE IF orderCount <= 25 THEN GENETIC_ALGORITHM
    ELSE OR_TOOLS_VRP

hybridRoutine_noGeneticTier(orderCount) ==
    IF orderCount <= 3 THEN "priorityBasedOptimization"
    ELSE "nearestNeighborOptimization"

\* hybridOptimization: the heuristic the hybrid dispatcher enters.
hybridRoutine(orderCount) ==
    IF orderCount <= 3 THEN "priorityBasedOptimization"
    ELSE IF orderCount <= 10 THEN "nearestNeighborOptimization"
    ELSE "geneticAlgorithmOptimization"

\* The switch of optimizeRoute followed to the heuristic that is entered:
\* orToolsVrpOptimization only calls geneticAlgorithmOptimization, and every
\* name that is no case label (the default branch) goes to hybridOptimization.
routineFor(selectedAlgorithm, orderCount) ==
    CASE selectedAlgorithm = PRIORITY_BASED -> "priorityBasedOptimization"
      [] selectedAlgorithm = NEAREST_NEIGHBOR -> "nearestNeighborOptimization"
      [] selectedAlgorithm = GENETIC_ALGORITHM -> "geneticAlgorithmOptimization"
      [] selectedAlgorithm = OR_TOOLS_VRP -> "geneticAlgorithmOptimization"
      [] OTHER -> hybridRoutine(orderCount)

(***************************************************************************)
(* Orders, priorities and Array.prototype.sort.                            *)
(* An order is [id, priority, createdAt, coordinates]; coordinates is TRUE *)
(* when the order carries a valid coordinate pair and FALSE when the field *)
(* is null or absent (orders loaded from the database carry none).         *)
(***************************************************************************)
Priorities == {"URGENT", "HIGH", "NORMAL", "LOW"}

priorityOrder(p) ==
    CASE p = "URGENT" -> 4 [] p = "HIGH" -> 3 [] p = "NORMAL" -> 2 [] p = "LOW" -> 1

\* The same table under the name the nearest-neighbor routine gives it.
priorityValues(p) == priorityOrder(p)

comparePriorityThenCreated_noTieBreak(a, b) ==
    priorityOrder(b.priority) - priorityOrder(a.priority)

\* The comparator of priorityBasedOptimization and applyBasicOptimizationAlgorithm.
comparePriorityThenCreated(a, b) ==
    IF priorityOrder(a.priority) # priorityOrder(b.priority)
    THEN priorityOrder(b.priority) - priorityOrder(a.priority)
    ELSE a.createdAt - b.createdAt

\* The comparator of nearestNeighborWithPriority.
comparePriority(a, b) == priorityValues(b.priority) - priorityValues(a.priority)

compare(kind, a, b) ==
    IF kind = "priorityThenCreated" THEN comparePriorityThenCreated(a, b)
    ELSE comparePriority(a, b)

\* Array.prototype.sort is stable: x goes after every element it does not
\* precede.
RECURSIVE insertSorted(_, _, _)
insertSorted(kind, x, s) ==
    IF s = <<>> THEN <<x>>
    ELSE IF compare(kind, x, Head(s)) < 0 THEN <<x>> \o s
    ELSE <<Head(s)>> \o insertSorted(kind, x, Tail(s))

RECURSIVE arraySort(_, _)
arraySort(kind, s) ==
    IF s = <<>> THEN <<>>
    ELSE insertSorted(kind, s[Len(s)], arraySort(kind, SubSeq(s, 1, Len(s) - 1)))

\* s without its element at position k (Array.prototype.splice(k, 1)).
splice(s, k) == SubSeq(s, 1, k - 1) \o SubSeq(s, k + 1, Len(s))

RECURSIVE sumOver(_, _)
sumOver(f, S) ==
    IF S = {} THEN 0
    ELSE LET x == CHOOSE y \in S : TRUE IN f[x] + sumOver(f, S \ {x})

(***************************************************************************)
(* DistanceMatrix.                                                         *)
(* The provider's answer is env.cells: for every pair of order ids a cell  *)
(* [ok, distance, duration, hasTraffic, traffic].  A formatted edge is a   *)
(* record of the distances array.                                          *)
(***************************************************************************)
formatDuration(seconds) ==
    LET hours == seconds \div 3600
        minutes == (seconds % 3600) \div 60
    IN IF hours > 0 THEN <<"hm", hours, minutes>> ELSE <<"m", minutes>>

\* (meters / 1000).toFixed(2), in hundredths of a kilometre; the model's
\* distances are multiples of ten metres, where toFixed does not round.
toFixed2Km(meters) == meters \div 10

formatForRouteOptimization(cells, deliveryPoints) ==
    { [ fromOrderId |-> deliveryPoints[i],
        toOrderId |-> deliveryPoints[j],
        distanceMeters |-> cells[<<deliveryPoints[i], deliveryPoints[j]>>].distance,
        durationSeconds |-> cells[<<deliveryPoints[i], deliveryPoints[j]>>].duration,
        durationInTrafficSeconds |->
            LET c == cells[<<deliveryPoints[i], deliveryPoints[j]>>]
            IN IF c.hasTraffic /\ c.traffic # 0 THEN c.traffic ELSE c.duration,
        fromIndex |-> i - 1,
        toIndex |-> j - 1 ] :
      <<i, j>> \in { q \in (1..Len(deliveryPoints)) \X (1..Len(deliveryPoints)) :
                        /\ cells[<<deliveryPoints[q[1]], deliveryPoints[q[2]]>>].ok
                        /\ q[1] # q[2] } }

\* calculateDeliveryDistances as call number callNo of one optimizer run:
\* Throws when the provider call fails, else the formatted distances.
calculateDeliveryDistances(deliveryPoints, env, callNo) ==
    IF Len(deliveryPoints) < 2 THEN [tag |-> "ok", distances |-> {}, called |-> FALSE]
    ELSE IF callNo \in env.mxFail THEN [tag |-> "throws"]
    ELSE [tag |-> "ok", called |-> TRUE,
          distances |-> formatForRouteOptimization(env.cells, deliveryPoints)]

\* routePoints[i].index is the position of the stop in the route it is given
\* (0-based); the edge looked up is the one whose fromIndex / toIndex, the
\* positions in the delivery-point list of the matrix call, equal them.
calculateRouteTotals(routePoints, distanceMatrix) ==
    LET found(i) == { d \in distanceMatrix :
                        /\ d.fromIndex = routePoints[i].index
                        /\ d.toIndex = routePoints[i + 1].index }
        steps == { i \in 1..(Len(routePoints) - 1) : found(i) # {} }
        edge == [i \in steps |-> CHOOSE d \in found(i) : TRUE]
        totalDistance == sumOver([i \in steps |-> edge[i].distanceMeters], steps)
        totalDurationInTraffic ==
            sumOver([i \in steps |-> edge[i].durationInTrafficSeconds], steps)
    IN [ totalDistanceMeters |-> totalDistance,
         totalDistanceKm |-> toFixed2Km(totalDistance),
         totalDurationInTrafficSeconds |-> totalDurationInTraffic,
         totalDurationInTrafficText |-> formatDuration(totalDurationInTraffic) ]

(***************************************************************************)
(* RouteOptimizer: helpers of the heuristics.                              *)
(***************************************************************************)
hasEdge(distances, fromId, toId) ==
    \E d \in distances : d.fromOrderId = fromId /\ d.toOrderId = toId

edgeOf(distances, fromId, toId) ==
    CHOOSE d \in distances : d.fromOrderId = fromId /\ d.toOrderId = toId

\* A route cost that looks at the first leg only.
calculateRouteDistance_firstLeg(route, distances) ==
    IF Len(route) >= 2 /\ hasEdge(distances, route[1].id, route[2].id)
    THEN edgeOf(distances, route[1].id, route[2].id).durationInTrafficSeconds
    ELSE 0

calculateRouteDistance(route, distances) ==
    LET steps == { i \in 1..(Len(route) - 1) : hasEdge(distances, route[i].id, route[i + 1].id) }
    IN sumOver([i \in steps |->
                   edgeOf(distances, route[i].id, route[i + 1].id).durationInTrafficSeconds],
               steps)

\* geocodeOrders: an order without coordinates is resolved through the
\* Geocoder; an invalid answer and a raised error both leave coordinates null.
\* A geocoding loop that gives up at the first address whose resolve raises.
geocodeOrders_stopsAtError(orders, env) ==
    LET failed == { k \in 1..Len(orders) :
                       ~orders[k].coordinates /\ env.geo[orders[k].id] = "throws" }
        n == IF failed = {} THEN Len(orders)
             ELSE (CHOOSE k \in failed : \A m \in failed : k <= m) - 1
    IN [k \in 1..n |->
           IF orders[k].coordinates THEN orders[k]
           ELSE [orders[k] EXCEPT !.coordinates = (env.geo[orders[k].id] = "valid")]]

geocodeOrders(orders, env) ==
    [k \in 1..Len(orders) |->
        IF orders[k].coordinates THEN orders[k]
        ELSE [orders[k] EXCEPT !.coordinates = (env.geo[orders[k].id] = "valid")]]

geocodeCalls(orders) == Cardinality({k \in 1..Len(orders) : ~orders[k].coordinates})

\* The delivery points of a geocoded list: the ids of the orders that have
\* coordinates, in list order.
RECURSIVE pointsOf(_)
pointsOf(orders) ==
    IF orders = <<>> THEN <<>>
    ELSE (IF Head(orders).coordinates THEN <<Head(orders).id>> ELSE <<>>) \o pointsOf(Tail(orders))

formatOptimizationResult_zeroBased(optimizedOrders, algorithm, includeTraffic, estimatedImprovement, distanceData, run) ==
    LET n == Len(optimizedOrders)
    IN [ tag |-> "ok",
         success |-> TRUE,
         algorithm |-> algorithm,
         totalOrders |-> n,
         optimizedSequence |->
             [k \in 1..n |-> [ id |-> optimizedOrders[k].id,
                               priority |-> optimizedOrders[k].priority,
                               createdAt |-> optimizedOrders[k].createdAt,
                               coordinates |-> optimizedOrders[k].coordinates,
                               sequenceNumber |-> k - 1,
                               estimatedDeliveryTime |-> <<"minutes", k * 15>> ]],
         estimatedDuration |-> <<"minutes", n * 15>>,
         estimatedDistance |-> <<"km", n * 5>>,
         realDistanceCalculated |-> distanceData.tag = "ok",
         metadata |-> [ algorithm |-> algorithm,
                        hasIncludeTraffic |-> TRUE,
                        includeTraffic |-> includeTraffic,
                        estimatedImprovement |-> estimatedImprovement,
                        fallback |-> FALSE ],
         run |-> run ]

\* formatOptimizationResult.  distanceData is NoResult or the value of
\* calculateDeliveryDistances.  An absent realDistanceCalculated is FALSE; the
\* run record (the heuristics entered, the Geocoder and matrix calls made and
\* whether matrix data ordered the sequence) is carried for the properties.
formatOptimizationResult(optimizedOrders, algorithm, includeTraffic, estimatedImprovement, distanceData, run) ==
    LET n == Len(optimizedOrders)
        totals == calculateRouteTotals(
                      [k \in 1..n |-> [id |-> optimizedOrders[k].id, index |-> k - 1]],
                      distanceData.distances)
        real == distanceData.tag = "ok"
    IN [ tag |-> "ok",
         success |-> TRUE,
         algorithm |-> algorithm,
         totalOrders |-> n,
         optimizedSequence |->
             [k \in 1..n |-> [ id |-> optimizedOrders[k].id,
                               priority |-> optimizedOrders[k].priority,
                               createdAt |-> optimizedOrders[k].createdAt,
                               coordinates |-> optimizedOrders[k].coordinates,
                               sequenceNumber |-> k,
                               estimatedDeliveryTime |-> <<"minutes", k * 15>> ]],
         estimatedDuration |->
             IF real THEN totals.totalDurationInTrafficText ELSE <<"minutes", n * 15>>,
         estimatedDistance |->
             IF real THEN <<"km2", totals.totalDistanceKm>> ELSE <<"km", n * 5>>,
         realDistanceCalculated |-> real,
         metadata |-> [ algorithm |-> algorithm,
                        hasIncludeTraffic |-> TRUE,
                        includeTraffic |-> includeTraffic,
                        estimatedImprovement |-> estimatedImprovement,
                        fallback |-> FALSE ],
         run |-> run ]

\* The run record and its updates.
NoRun == [entered |-> <<>>, geoCalls |-> 0, mxCalls |-> 0, usedMatrix |-> FALSE]

enter(run, routine) == [run EXCEPT !.entered = @ \o <<routine>>]

\* A raised error, and a run that enters heuristics without end (cut after
\* MaxEntered entries).
throw(run) == [tag |-> "throws", run |-> run]
diverge(run) == [tag |-> "diverges", run |-> run]

(***************************************************************************)
(* RouteOptimizer: the heuristics.                                         *)
(* options is [algorithm, includeTraffic, useCoordinates, priorityWeight,  *)
(* distanceWeight] (weights in tenths).  env is what the outside does      *)
(* during one run: env.geo[id] is the Geocoder's outcome for the order's   *)
(* address ("valid", "invalid" or "throws"), env.mxFail the numbers of the *)
(* distance-matrix calls that fail, env.cells the provider's matrix, and   *)
(* env.fault the heuristics whose own computation raises an error.         *)
(***************************************************************************)
Heuristics == {"priorityBasedOptimization", "priorityWithDistanceOptimization",
               "nearestNeighborOptimization", "geneticAlgorithmOptimization"}

\* A score that takes the nearest candidate, whatever its priority.
score_distanceOnly(edge, candidate, priorityWeight, distanceWeight) ==
    edge.durationInTrafficSeconds

\* 144000 times the score of nearestNeighborWithPriority:
\* distanceWeight * seconds / 3600 + priorityWeight * (5 - priority) / 4.
score(edge, candidate, priorityWeight, distanceWeight) ==
    distanceWeight * 4 * edge.durationInTrafficSeconds
        + priorityWeight * 3600 * (5 - priorityValues(candidate.priority))

\* A loop that ends the route at the first stop without distance data.
RECURSIVE nearestNeighborLoop_stopsWithoutEdge(_, _, _, _, _, _)
nearestNeighborLoop_stopsWithoutEdge(unvisited, route, current, distances, priorityWeight, distanceWeight) ==
    IF unvisited = <<>> THEN route
    ELSE
        LET cands == { k \in 1..Len(unvisited) : hasEdge(distances, current.id, unvisited[k].id) }
            sc(k) == score(edgeOf(distances, current.id, unvisited[k].id), unvisited[k],
                           priorityWeight, distanceWeight)
        IN IF cands # {}
           THEN LET best == CHOOSE k \in cands :
                               \A j \in cands : sc(k) < sc(j) \/ (sc(k) = sc(j) /\ k <= j)
                IN nearestNeighborLoop_stopsWithoutEdge(
                       splice(unvisited, best), Append(route, unvisited[best]),
                       unvisited[best], distances, priorityWeight, distanceWeight)
           ELSE route

RECURSIVE nearestNeighborLoop(_, _, _, _, _, _)
nearestNeighborLoop(unvisited, route, current, distances, priorityWeight, distanceWeight) ==
    IF unvisited = <<>> THEN route
    ELSE
        LET cands == { k \in 1..Len(unvisited) : hasEdge(distances, current.id, unvisited[k].id) }
            sc(k) == score(edgeOf(distances, current.id, unvisited[k].id), unvisited[k],
                           priorityWeight, distanceWeight)
        IN IF cands # {}
           THEN LET best == CHOOSE k \in cands :
                               \A j \in cands : sc(k) < sc(j) \/ (sc(k) = sc(j) /\ k <= j)
                IN nearestNeighborLoop(splice(unvisited, best), Append(route, unvisited[best]),
                                       unvisited[best], distances, priorityWeight, distanceWeight)
           ELSE \* no distance data from the current stop: next by priority
                LET sorted == arraySort("priority", unvisited)
                IN nearestNeighborLoop(Tail(sorted), Append(route, sorted[1]),
                                       sorted[1], distances, priorityWeight, distanceWeight)

nearestNeighborWithPriority(orders, distances, priorityWeight, distanceWeight) ==
    LET sorted == arraySort("priority", orders)
    IN nearestNeighborLoop(Tail(sorted), <<sorted[1]>>, sorted[1],
                           distances, priorityWeight, distanceWeight)

\* A nearest neighbor inside a group that ends at the first stop without
\* distance data.
RECURSIVE simpleNearestNeighborLoop_stopsWithoutEdge(_, _, _, _)
simpleNearestNeighborLoop_stopsWithoutEdge(unvisited, route, current, distances) ==
    IF unvisited = <<>> THEN route
    ELSE
        LET cands == { k \in 1..Len(unvisited) : hasEdge(distances, current.id, unvisited[k].id) }
            dur(k) == edgeOf(distances, current.id, unvisited[k].id).durationInTrafficSeconds
        IN IF cands # {}
           THEN LET nearest == CHOOSE k \in cands :
                                  \A j \in cands : dur(k) < dur(j) \/ (dur(k) = dur(j) /\ k <= j)
                IN simpleNearestNeighborLoop_stopsWithoutEdge(splice(unvisited, nearest),
                                                              Append(route, unvisited[nearest]),
                                                              unvisited[nearest], distances)
           ELSE route

RECURSIVE simpleNearestNeighborLoop(_, _, _, _)
simpleNearestNeighborLoop(unvisited, route, current, distances) ==
    IF unvisited = <<>> THEN route
    ELSE
        LET cands == { k \in 1..Len(unvisited) : hasEdge(distances, current.id, unvisited[k].id) }
            dur(k) == edgeOf(distances, current.id, unvisited[k].id).durationInTrafficSeconds
        IN IF cands # {}
           THEN LET nearest == CHOOSE k \in cands :
                                  \A j \in cands : dur(k) < dur(j) \/ (dur(k) = dur(j) /\ k <= j)
                IN simpleNearestNeighborLoop(splice(unvisited, nearest),
                                             Append(route, unvisited[nearest]),
                                             unvisited[nearest], distances)
           ELSE simpleNearestNeighborLoop(Tail(unvisited), Append(route, unvisited[1]),
                                          unvisited[1], distances)

simpleNearestNeighbor(orders, distances) ==
    simpleNearestNeighborLoop(Tail(orders), <<orders[1]>>, orders[1], distances)

\* Whether some stop of the route was chosen over an edge of the matrix (a
\* stop chosen without distance data has no edge from its predecessor).
orderedByMatrix(route, distances) ==
    \E i \in 1..(Len(route) - 1) : hasEdge(distances, route[i].id, route[i + 1].id)

\* groupOrdersByPriority with Object.entries: the groups in the order in
\* which their priority first appears in the list.
\* A grouping that puts every order into one bucket.
groupOrdersByPriority_oneGroup(orders) == <<orders>>

RECURSIVE groupOrdersByPriority(_)
groupOrdersByPriority(orders) ==
    IF orders = <<>> THEN <<>>
    ELSE LET p == Head(orders).priority
             same(o) == o.priority = p
             other(o) == o.priority # p
         IN <<SelectSeq(orders, same)>> \o groupOrdersByPriority(SelectSeq(orders, other))

\* nearestNeighborForGroup as matrix call number run.mxCalls + 1 when it
\* makes one: [orders, run].
nearestNeighborForGroup(orders, env, run) ==
    IF Len(orders) <= 1 THEN [orders |-> orders, run |-> run]
    ELSE LET deliveryPoints == pointsOf(orders)
             distanceData == calculateDeliveryDistances(deliveryPoints, env, run.mxCalls + 1)
         IN IF Len(deliveryPoints) < 2 THEN [orders |-> orders, run |-> run]
            ELSE IF distanceData.tag = "throws"
                 THEN [orders |-> orders, run |-> [run EXCEPT !.mxCalls = @ + 1]]
            ELSE LET route == simpleNearestNeighbor(orders, distanceData.distances)
                 IN [orders |-> route,
                     run |-> [run EXCEPT !.mxCalls = @ + 1,
                                         !.usedMatrix = @ \/ orderedByMatrix(route, distanceData.distances)]]

RECURSIVE optimizeGroups(_, _, _)
optimizeGroups(groups, env, run) ==
    IF groups = <<>> THEN [orders |-> <<>>, run |-> run]
    ELSE LET first == nearestNeighborForGroup(Head(groups), env, run)
             rest == optimizeGroups(Tail(groups), env, first.run)
         IN [orders |-> first.orders \o rest.orders, run |-> rest.run]

\* One heuristic calling another goes through call, which enters the named
\* routine.
RECURSIVE call(_, _, _, _, _)

priorityWithDistanceOptimization(orders, options, env, run) ==
    LET run1 == [enter(run, "priorityWithDistanceOptimization")
                    EXCEPT !.geoCalls = @ + geocodeCalls(orders)]
        geocodedOrders == geocodeOrders(orders, env)
    IN IF "priorityWithDistanceOptimization" \in env.fault
       THEN \* catch: fallback to basic priority
            call("priorityBasedOptimization", orders, [options EXCEPT !.includeTraffic = FALSE], env, run1)
       ELSE LET g == optimizeGroups(groupOrdersByPriority(geocodedOrders), env, run1)
            IN formatOptimizationResult(g.orders, "PRIORITY_WITH_DISTANCE",
                                        options.includeTraffic, "15-25%", NoResult, g.run)

\* A priority ordering that goes on to the distance variant whatever the
\* options say.
priorityBasedOptimization_alwaysDistance(orders, options, env, run) ==
    LET run1 == enter(run, "priorityBasedOptimization")
    IN IF Len(run.entered) >= MaxEntered THEN diverge(run)
       ELSE call("priorityWithDistanceOptimization",
                 arraySort("priorityThenCreated", orders), options, env, run1)

priorityBasedOptimization(orders, options, env, run) ==
    LET run1 == enter(run, "priorityBasedOptimization")
    IN IF Len(run.entered) >= MaxEntered THEN diverge(run)
       ELSE IF "priorityBasedOptimization" \in env.fault
       THEN throw(run1)      \* catch: 'Priority optimization failed'
       ELSE LET sortedOrders == arraySort("priorityThenCreated", orders)
            IN IF options.includeTraffic \/ options.useCoordinates
               THEN call("priorityWithDistanceOptimization", sortedOrders, options, env, run1)
               ELSE formatOptimizationResult(sortedOrders, PRIORITY_BASED, FALSE, "0%",
                                             NoResult, run1)

nearestNeighborOptimization(orders, options, env, run) ==
    LET run1 == [enter(run, "nearestNeighborOptimization")
                    EXCEPT !.geoCalls = @ + geocodeCalls(orders)]
        geocodedOrders == geocodeOrders(orders, env)
        deliveryPoints == pointsOf(geocodedOrders)
        distanceData == calculateDeliveryDistances(deliveryPoints, env, run1.mxCalls + 1)
        run2 == [run1 EXCEPT !.mxCalls = @ + 1]
    IN IF Len(deliveryPoints) < 2
       THEN LET r == call("priorityBasedOptimization", orders, options, env, run1)
            IN IF r.tag = "throws"
               THEN call("priorityBasedOptimization", orders, options, env, r.run)   \* catch
               ELSE r
       ELSE IF distanceData.tag = "throws" \/ "nearestNeighborOptimization" \in env.fault
       THEN \* catch: fallback to priority-based
            call("priorityBasedOptimization", orders, options, env, run2)
       ELSE LET route == nearestNeighborWithPriority(geocodedOrders, distanceData.distances,
                                                     options.priorityWeight, options.distanceWeight)
            IN formatOptimizationResult(
                   route, NEAREST_NEIGHBOR, options.includeTraffic, "25-40%", distanceData,
                   [run2 EXCEPT !.usedMatrix = orderedByMatrix(route, distanceData.distances)])

\* The four fixed weight pairs <<priorityWeight, distanceWeight>>, in tenths.
parameterSets == << <<2, 8>>, <<3, 7>>, <<4, 6>>, <<5, 5>> >>

geneticAlgorithmOptimization(orders, options, env, run) ==
    LET run1 == [enter(run, "geneticAlgorithmOptimization")
                    EXCEPT !.geoCalls = @ + geocodeCalls(orders)]
        geocodedOrders == geocodeOrders(orders, env)
        deliveryPoints == pointsOf(geocodedOrders)
        distanceData == calculateDeliveryDistances(deliveryPoints, env, run1.mxCalls + 1)
        run2 == [run1 EXCEPT !.mxCalls = @ + 1]
    IN IF Len(deliveryPoints) < 2
       THEN LET r == call("priorityBasedOptimization", orders, options, env, run1)
            IN IF r.tag = "throws"
               THEN call("nearestNeighborOptimization", orders, options, env, r.run)   \* catch
               ELSE r
       ELSE IF distanceData.tag = "throws" \/ "geneticAlgorithmOptimization" \in env.fault
       THEN \* catch: fallback to nearest neighbor
            call("nearestNeighborOptimization", orders, options, env, run2)
       ELSE LET attempts ==
                    [a \in 1..Len(parameterSets) |->
                        LET route == nearestNeighborWithPriority(
                                         geocodedOrders, distanceData.distances,
                                         parameterSets[a][1], parameterSets[a][2])
                        IN [route |-> route,
                            distance |-> calculateRouteDistance(route, distanceData.distances),
                            params |-> parameterSets[a]]]
                \* attempts.sort((a, b) => a.distance - b.distance)[0], a stable sort
                best == CHOOSE a \in 1..Len(attempts) :
                            \A b \in 1..Len(attempts) :
                                \/ attempts[a].distance < attempts[b].distance
                                \/ (attempts[a].distance = attempts[b].distance /\ a <= b)
                bestAttempt == attempts[best]
            IN formatOptimizationResult(
                   bestAttempt.route, GENETIC_ALGORITHM, options.includeTraffic, "30-50%",
                   distanceData,
                   [run2 EXCEPT !.usedMatrix =
                                    orderedByMatrix(bestAttempt.route, distanceData.distances)])

orToolsVrpOptimization(orders, options, env, run) ==
    LET r == call("geneticAlgorithmOptimization", orders, options, env, enter(run, "orToolsVrpOptimization"))
    IN IF r.tag = "throws"
       THEN call("geneticAlgorithmOptimization", orders, options, env, r.run)   \* catch
       ELSE r

hybridOptimization(orders, options, env, run) ==
    LET run1 == enter(run, "hybridOptimization")
        orderCount == Len(orders)
        r == IF orderCount <= 3 THEN call("priorityBasedOptimization", orders, options, env, run1)
             ELSE IF orderCount <= 10 THEN call("nearestNeighborOptimization", orders, options, env, run1)
             ELSE call("geneticAlgorithmOptimization", orders, options, env, run1)
    IN IF r.tag = "throws"
       THEN call("priorityBasedOptimization", orders, options, env, r.run)   \* catch
       ELSE r

call(routine, orders, options, env, run) ==
    CASE routine = "priorityBasedOptimization" ->
             priorityBasedOptimization(orders, options, env, run)
      [] routine = "priorityWithDistanceOptimization" ->
             priorityWithDistanceOptimization(orders, options, env, run)
      [] routine = "nearestNeighborOptimization" ->
             nearestNeighborOptimization(orders, options, env, run)
      [] routine = "geneticAlgorithmOptimization" ->
             geneticAlgorithmOptimization(orders, options, env, run)
      [] routine = "orToolsVrpOptimization" ->
             orToolsVrpOptimization(orders, options, env, run)
      [] routine = "hybridOptimization" ->
             hybridOptimization(orders, options, env, run)

createSingleOrderRoute(order, run) ==
    formatOptimizationResult(<<order>>, "SINGLE_ORDER", FALSE, "0%", NoResult, run)

\* RouteOptimizer.optimizeRoute; its catch raises the error again.
optimizeRoute(orders, options, env) ==
    IF Len(orders) = 0 THEN throw(NoRun)
    ELSE IF Len(orders) = 1 THEN createSingleOrderRoute(orders[1], NoRun)
    ELSE LET selectedAlgorithm ==
                 selectOptimalAlgorithm(Len(orders), algorithmOption(options.algorithm))
             \* the switch statement
             routine == CASE selectedAlgorithm = PRIORITY_BASED -> "priorityBasedOptimization"
                          [] selectedAlgorithm = NEAREST_NEIGHBOR -> "nearestNeighborOptimization"
                          [] selectedAlgorithm = GENETIC_ALGORITHM -> "geneticAlgorithmOptimization"
                          [] selectedAlgorithm = OR_TOOLS_VRP -> "orToolsVrpOptimization"
                          [] OTHER -> "hybridOptimization"
         IN call(routine, orders, options, env, NoRun)

(***************************************************************************)
(* RouteService.applyBasicOptimizationAlgorithm, the service's fallback.   *)
(* Its metadata has no algorithm and no includeTraffic key.                *)
(***************************************************************************)
applyBasicOptimizationAlgorithm(orders, run) ==
    LET optimizedOrders == arraySort("priorityThenCreated", orders)
        n == Len(optimizedOrders)
    IN [ tag |-> "ok",
         success |-> TRUE,
         algorithm |-> "PRIORITY_BASED",
         totalOrders |-> n,
         optimizedSequence |->
             [k \in 1..n |-> [ id |-> optimizedOrders[k].id,
                               priority |-> optimizedOrders[k].priority,
                               createdAt |-> optimizedOrders[k].createdAt,
                               coordinates |-> optimizedOrders[k].coordinates,
                               sequenceNumber |-> k,
                               estimatedDeliveryTime |-> <<"minutes", k * 15>> ]],
         estimatedDuration |-> <<"minutes", n * 15>>,
         estimatedDistance |-> <<"km", n * 5>>,
         realDistanceCalculated |-> FALSE,
         metadata |-> [ algorithm |-> NoValue,
                        hasIncludeTraffic |-> FALSE,
                        includeTraffic |-> FALSE,
                        estimatedImprovement |-> "0%",
                        fallback |-> TRUE ],
         run |-> enter(run, "applyBasicOptimizationAlgorithm") ]

(***************************************************************************)
(* Inputs of the heuristics.                                               *)
(***************************************************************************)
\* Lists of n orders with ids 1..n, as loaded (no coordinates).
OrderLists(n, prios, times) ==
    { [k \in 1..n |-> [id |-> k, priority |-> pr[k], createdAt |-> tm[k], coordinates |-> FALSE]] :
        <<pr, tm>> \in [1..n -> prios] \X [1..n -> times] }

\* A provider matrix over the ids 1..n: layout r fixes the durations, missing
\* is the set of pairs the provider answers with a per-cell error.  Some cells
\* carry no traffic duration.
DurationValues == <<120, 600, 1500>>

cellsOf(n, r, missing) ==
    [q \in (1..n) \X (1..n) |->
        LET d == DurationValues[((2 * q[1] + q[2] + r) % 3) + 1]
        IN [ ok |-> q \notin missing,
             distance |-> 10 * d,
             duration |-> d,
             hasTraffic |-> (q[1] + q[2] + r) % 2 = 0,
             traffic |-> d + 180 ]]

\* Per-cell error patterns: none, one pair, or every pair out of one stop.
MissingPatterns(n) ==
    {{}} \cup { {q} : q \in { p \in (1..n) \X (1..n) : p[1] # p[2] } }
         \cup { { <<a, b>> : b \in (1..n) \ {a} } : a \in 1..n }

\* Geocoding outcomes: every address resolved, or one that is not.
GeoPatterns(n) ==
    { [k \in 1..n |-> "valid"] }
      \cup { [k \in 1..n |-> IF k = bad THEN "invalid" ELSE "valid"] : bad \in 1..n }

\* Creation times of the orders of a list.
TimeValues == {1, 2}

\* The example of the priority rule: A(LOW, t=1), B(URGENT, t=2), C(NORMAL, t=3).
exampleOrders ==
    << [id |-> 1, priority |-> "LOW", createdAt |-> 1, coordinates |-> FALSE],
       [id |-> 2, priority |-> "URGENT", createdAt |-> 2, coordinates |-> FALSE],
       [id |-> 3, priority |-> "NORMAL", createdAt |-> 3, coordinates |-> FALSE] >>

defaultOptions ==
    [ algorithm |-> NoValue, includeTraffic |-> FALSE, useCoordinates |-> FALSE,
      priorityWeight |-> 3, distanceWeight |-> 7 ]

noFailure(n) ==
    [ geo |-> [k \in 1..n |-> "valid"], mxFail |-> {}, cells |-> cellsOf(n, 0, {}), fault |-> {} ]

\* Failure patterns use one list of orders of each length.
fixedOrders(n) ==
    [k \in 1..n |-> [ id |-> k,
                      priority |-> IF k % 2 = 0 THEN "URGENT" ELSE "NORMAL",
                      createdAt |-> 1,
                      coordinates |-> FALSE ]]

\* Priority ordering: no address can be resolved.
InitPriority ==
    \/ \E n \in 1..MaxOrders :
         \E os \in OrderLists(n, Priorities, TimeValues), tr \in BOOLEAN :
           algIn = [ kind |-> "priority",
                     orders |-> os,
                     options |-> [defaultOptions EXCEPT !.algorithm = PRIORITY_BASED,
                                                        !.includeTraffic = tr],
                     env |-> [noFailure(n) EXCEPT !.geo = [k \in 1..n |-> "invalid"]] ]
    \/ \E how \in {"invalid", "throws"}, tr \in BOOLEAN :
           algIn = [ kind |-> "priority",
                     orders |-> exampleOrders,
                     options |-> [defaultOptions EXCEPT !.algorithm = PRIORITY_BASED,
                                                        !.includeTraffic = tr],
                     env |-> [noFailure(3) EXCEPT !.geo = [k \in 1..3 |-> how]] ]

\* The priorities of the orders given to the matrix heuristics.
MatrixPriorities == {"URGENT", "NORMAL", "LOW"}

\* Nearest neighbor over full and partial matrices and partly geocoded lists,
\* multi-start over full and partial matrices.
InitMatrix ==
    \E n \in 2..MaxOrders :
      \E os \in OrderLists(n, MatrixPriorities, {1}), r \in 0..1, miss \in MissingPatterns(n),
         ag \in ({NEAREST_NEIGHBOR} \X GeoPatterns(n))
                  \cup {<<GENETIC_ALGORITHM, [k \in 1..n |-> "valid"]>>} :
        algIn = [ kind |-> "matrix",
                  orders |-> os,
                  options |-> [defaultOptions EXCEPT !.algorithm = ag[1]],
                  env |-> [noFailure(n) EXCEPT !.geo = ag[2], !.cells = cellsOf(n, r, miss)] ]

\* Failure patterns: failing matrix calls and failing heuristics, for every
\* algorithm name and option.
InitFailure ==
    \E n \in 2..MaxOrders :
      \E alg \in RequestedNames, tr \in BOOLEAN, uc \in BOOLEAN,
         mf \in SUBSET (1..2), fl \in SUBSET Heuristics :
        algIn = [ kind |-> "failure",
                  orders |-> fixedOrders(n),
                  options |-> [defaultOptions EXCEPT !.algorithm = alg,
                                                     !.includeTraffic = tr,
                                                     !.useCoordinates = uc],
                  env |-> [noFailure(n) EXCEPT !.mxFail = mf, !.fault = fl] ]

\* A provider matrix over three stops with each cell answered: every leg
\* has a duration of its own, and no traffic value.
StopsOfThree == 1..3
LegDurations == {120, 300, 600}
LegsOfThree == { q \in StopsOfThree \X StopsOfThree : q[1] # q[2] }

cellsChosen(durations) ==
    [q \in StopsOfThree \X StopsOfThree |->
        LET d == IF q \in LegsOfThree THEN durations[q] ELSE 0
        IN [ ok |-> TRUE, distance |-> 10 * d, duration |-> d,
             hasTraffic |-> FALSE, traffic |-> 0 ]]

\* Multi-start and nearest neighbor on three orders over every such matrix.
InitMultiStart ==
    \E os \in OrderLists(3, {"URGENT", "HIGH"}, {1}),
       durations \in [LegsOfThree -> LegDurations],
       alg \in {GENETIC_ALGORITHM, NEAREST_NEIGHBOR} :
        algIn = [ kind |-> "multistart",
                  orders |-> os,
                  options |-> [defaultOptions EXCEPT !.algorithm = alg],
                  env |-> [noFailure(3) EXCEPT !.cells = cellsChosen(durations)] ]

\* Priority with distance: lists long enough for a bucket of three, over
\* full and partial matrices, every order geocoded or the first one not.
InitBuckets ==
    \E os \in OrderLists(MaxOrders + 1, {"HIGH", "NORMAL"}, {1}), r \in 0..1,
       miss \in MissingPatterns(MaxOrders + 1),
       geo \in { g \in GeoPatterns(MaxOrders + 1) : \A k \in 2..(MaxOrders + 1) : g[k] = "valid" },
       tr \in BOOLEAN :
        algIn = [ kind |-> "buckets",
                  orders |-> os,
                  options |-> [defaultOptions EXCEPT !.algorithm = PRIORITY_BASED,
                                                     !.includeTraffic = tr,
                                                     !.useCoordinates = ~tr],
                  env |-> [noFailure(MaxOrders + 1)
                              EXCEPT !.geo = geo,
                                     !.cells = cellsOf(MaxOrders + 1, r, miss)] ]

InitAlg ==
    /\ InitPriority \/ InitMatrix \/ InitFailure \/ InitMultiStart \/ InitBuckets
    /\ algOut = NoResult
    /\ geoIdle
    /\ svcIdle

RunOptimize ==
    /\ algIn.kind \in {"priority", "matrix", "failure", "multistart", "buckets"}
    /\ algOut = NoResult
    /\ algOut' = optimizeRoute(algIn.orders, algIn.options, algIn.env)
    /\ UNCHANGED <<algIn, geoVars, svcVars>>

RunBasic ==
    /\ algIn.kind = "priority"
    /\ algOut = NoResult
    /\ algOut' = applyBasicOptimizationAlgorithm(algIn.orders, NoRun)
    /\ UNCHANGED <<algIn, geoVars, svcVars>>

NextAlg == RunOptimize \/ RunBasic

SpecAlg == InitAlg /\ [][NextAlg]_vars

(***************************************************************************)
(* Properties of the heuristics (SpecAlg).                                 *)
(***************************************************************************)
\* What the run's matrix call returned for the input, and the ids emitted.
inputDistances ==
    formatForRouteOptimization(algIn.env.cells, pointsOf(geocodeOrders(algIn.orders, algIn.env)))

emittedIds == [k \in 1..Len(algOut.optimizedSequence) |-> algOut.optimizedSequence[k].id]

inputIds == { algIn.orders[k].id : k \in 1..Len(algIn.orders) }

everyOrderOnce ==
    /\ Len(algOut.optimizedSequence) = Len(algIn.orders)
    /\ { emittedIds[k] : k \in 1..Len(emittedIds) } = inputIds

ranOn(kind) == algIn.kind = kind /\ algOut.tag = "ok"

fullMatrixRun ==
    /\ ranOn("matrix")
    /\ algOut.algorithm = NEAREST_NEIGHBOR
    /\ \A k \in 1..Len(algIn.orders) : algIn.env.geo[k] = "valid"
    /\ \A q \in DOMAIN algIn.env.cells : algIn.env.cells[q].ok

\* C4: with a full distance matrix, the total duration reported for the route
\* of Priority-Weighted-Nearest-Neighbor is the sum of the traffic-aware
\* durations of the edges between consecutive stops of the emitted sequence.
C4_TotalAlongEmitted ==
    fullMatrixRun =>
        algOut.estimatedDuration =
            formatDuration(calculateRouteDistance(algOut.optimizedSequence, inputDistances))

\* C5: with no resolvable coordinates the Priority-Only output, and the
\* service's basic fallback ordering, is the input ordered by priority rank
\* descending with ties broken by ascending creation time.
C5_PriorityOrder ==
    ranOn("priority") =>
        /\ everyOrderOnce
        /\ \A i, j \in 1..Len(algOut.optimizedSequence) :
              i < j =>
                LET a == algOut.optimizedSequence[i]
                    b == algOut.optimizedSequence[j]
                IN \/ priorityOrder(a.priority) > priorityOrder(b.priority)
                   \/ /\ priorityOrder(a.priority) = priorityOrder(b.priority)
                      /\ a.createdAt <= b.createdAt
        /\ (algIn.orders = exampleOrders => emittedIds = <<2, 3, 1>>)

C5_Witness ==
    /\ ranOn("priority")
    /\ Len(algIn.orders) = 3
    /\ algIn.orders[1].priority = algIn.orders[2].priority
    /\ algIn.orders[1].createdAt > algIn.orders[2].createdAt
    /\ priorityOrder(algIn.orders[3].priority) > priorityOrder(algIn.orders[1].priority)
    /\ emittedIds = <<3, 2, 1>>
    /\ algOut.run.entered = <<"applyBasicOptimizationAlgorithm">>

\* The orders not yet visited before step k of the emitted route.
unvisitedBefore(k) == { emittedIds[j] : j \in k..Len(emittedIds) }

priorityOfId(id) ==
    (CHOOSE o \in { algIn.orders[k] : k \in 1..Len(algIn.orders) } : o.id = id).priority

noEdgeAtStep(k) ==
    \A c \in unvisitedBefore(k) : ~hasEdge(inputDistances, emittedIds[k - 1], c)

\* C6: with a partial distance matrix Priority-Weighted-Nearest-Neighbor
\* raises no error and emits every input order; at a step where no unvisited
\* candidate has an edge from the current stop it takes an unvisited order of
\* highest priority, and at a step where some candidate has an edge it takes
\* a candidate over an edge.
C6_PartialMatrix ==
    (algIn.kind = "matrix" /\ algOut.tag # "none"
        /\ algOut.run.entered = <<"nearestNeighborOptimization">>) =>
        /\ algOut.tag = "ok"
        /\ everyOrderOnce
        /\ \A k \in 2..Len(emittedIds) :
              IF noEdgeAtStep(k)
              THEN \A c \in unvisitedBefore(k) :
                      priorityValues(priorityOfId(emittedIds[k])) >= priorityValues(priorityOfId(c))
              ELSE hasEdge(inputDistances, emittedIds[k - 1], emittedIds[k])

\* A step without distance data followed by a scored step.
C6_Witness ==
    /\ algIn.kind = "matrix"
    /\ algOut.tag = "ok"
    /\ algOut.run.entered = <<"nearestNeighborOptimization">>
    /\ Len(emittedIds) = 3
    /\ \E q \in DOMAIN algIn.env.cells : ~algIn.env.cells[q].ok
    /\ noEdgeAtStep(2)
    /\ hasEdge(inputDistances, emittedIds[2], emittedIds[3])

\* C8 as stated: one order gives a one-stop sequence with sequence number 1
\* and a reported aggregate travel distance of zero.
C8_SingleOrderZeroDistance ==
    (ranOn("priority") /\ Len(algIn.orders) = 1) =>
        /\ Len(algOut.optimizedSequence) = 1
        /\ algOut.optimizedSequence[1].sequenceNumber = 1
        /\ algOut.estimatedDistance \in {<<"km", 0>>, <<"km2", 0>>}

\* C8 as amended: one order gives a one-stop sequence with sequence number 1;
\* no distance data is used and the distance reported is the fixed per-order
\* estimate "5 km" (the duration "15 minutes"), through the optimizer's
\* single-order route and through the service's basic ordering alike.
C8_SingleOrderEstimate ==
    (ranOn("priority") /\ Len(algIn.orders) = 1) =>
        /\ Len(algOut.optimizedSequence) = 1
        /\ algOut.optimizedSequence[1].id = algIn.orders[1].id
        /\ algOut.optimizedSequence[1].sequenceNumber = 1
        /\ algOut.estimatedDistance = <<"km", 5>>
        /\ algOut.estimatedDuration = <<"minutes", 15>>
        /\ ~algOut.realDistanceCalculated
        /\ algOut.run.mxCalls = 0
        /\ algOut.algorithm \in {"SINGLE_ORDER", "PRIORITY_BASED"}

C8_Witness ==
    /\ ranOn("priority")
    /\ Len(algIn.orders) = 1
    /\ algOut.algorithm = "SINGLE_ORDER"
    /\ algOut.optimizedSequence[1].sequenceNumber = 1

\* No algorithm is named: the option is absent, or it is the optimizer's or
\* the service's name of the hybrid.
defaultAlgorithm == algIn.options.algorithm \in {NoValue, HYBRID, SERVICE_HYBRID}

\* The optimizer has returned or raised.
optimizerReturned ==
    /\ algIn.kind \in {"priority", "matrix", "failure", "multistart", "buckets"}
    /\ algOut.tag \in {"ok", "throws"}

wentThrough(routine) == \E k \in 1..Len(algOut.run.entered) : algOut.run.entered[k] = routine

\* C24: an optimize of 2 or 3 orders with no algorithm named and neither
\* includeTraffic nor useCoordinates set runs the priority ordering alone:
\* no resolve and no distance-matrix call is made and a result comes out as
\* PRIORITY_BASED.  In every run, whatever the algorithm, the options and
\* the failures, priorityWithDistanceOptimization is entered only when
\* includeTraffic or useCoordinates is set.
C24_PriorityOnlyNoCalls ==
    optimizerReturned =>
        /\ ( /\ defaultAlgorithm
             /\ Len(algIn.orders) \in 2..3
             /\ ~algIn.options.includeTraffic
             /\ ~algIn.options.useCoordinates ) =>
                /\ algOut.run.geoCalls = 0
                /\ algOut.run.mxCalls = 0
                /\ ~wentThrough("nearestNeighborOptimization")
                /\ ~wentThrough("geneticAlgorithmOptimization")
                /\ algOut.tag = "ok" =>
                      /\ algOut.algorithm = PRIORITY_BASED
                      /\ ~algOut.realDistanceCalculated
        /\ wentThrough("priorityWithDistanceOptimization") =>
              algIn.options.includeTraffic \/ algIn.options.useCoordinates

\* Three orders, nothing named or requested, the providers ready to answer:
\* the priority ordering alone runs and reorders the list.
C24_Witness ==
    /\ ranOn("failure")
    /\ algIn.options.algorithm = NoValue
    /\ ~algIn.options.includeTraffic
    /\ ~algIn.options.useCoordinates
    /\ Len(algIn.orders) = 3
    /\ algIn.env.mxFail = {}
    /\ algIn.env.fault = {}
    /\ algOut.run.entered = <<"priorityBasedOptimization">>
    /\ algOut.run.geoCalls = 0
    /\ emittedIds # <<1, 2, 3>>

\* A result is a permutation of a list of orders: as long as the list, each
\* id of the list in it, totalOrders the length and the sequence numbers
\* 1..n in emitted order.
permutationOf(result, orders) ==
    /\ result.totalOrders = Len(orders)
    /\ Len(result.optimizedSequence) = Len(orders)
    /\ \A k \in 1..Len(orders) :
          \E j \in 1..Len(result.optimizedSequence) :
             /\ result.optimizedSequence[j].id = orders[k].id
             /\ result.optimizedSequence[j].priority = orders[k].priority
             /\ \A i \in 1..Len(result.optimizedSequence) :
                   result.optimizedSequence[i].id = orders[k].id => i = j
    /\ \A j \in 1..Len(result.optimizedSequence) :
          result.optimizedSequence[j].sequenceNumber = j

\* C25: whatever heuristic ran and whichever fallbacks were taken, a result
\* of the optimizer holds each input order exactly once, the orders without
\* coordinates too, totalOrders is the input count and the sequence numbers
\* are 1..n in emitted order; so does the result of the basic ordering,
\* which the service puts in the place of an optimizer run that raised.
C25_PermutationOfInput ==
    /\ (algIn.kind \in {"priority", "matrix", "failure", "multistart", "buckets"}
           /\ algOut.tag = "ok")
          => permutationOf(algOut, algIn.orders)
    /\ (algIn.kind = "failure" /\ algOut.tag = "throws")
          => permutationOf(applyBasicOptimizationAlgorithm(algIn.orders, algOut.run), algIn.orders)

\* Priority with distance on a group of three whose first stop has no cell
\* answered, the list coming out in another order than it went in.
C25_Witness ==
    /\ ranOn("buckets")
    /\ algOut.algorithm = "PRIORITY_WITH_DISTANCE"
    /\ algOut.run.mxCalls > 0
    /\ \E a \in inputIds : \A b \in inputIds \ {a} : ~algIn.env.cells[<<a, b>>].ok
    /\ \E k \in 1..Len(algIn.orders) : ~algOut.optimizedSequence[k].coordinates
    /\ emittedIds # [k \in 1..Len(algIn.orders) |-> algIn.orders[k].id]
    /\ permutationOf(algOut, algIn.orders)

\* C26: every optimizer run on a non-empty list ends, returning a result or
\* raising an error, under every pattern of failing providers and failing
\* heuristics and every combination of options: no run goes on entering
\* heuristics without end.
C26_RunsTerminate ==
    (algIn.kind \in {"priority", "matrix", "failure", "multistart", "buckets"}
        /\ algOut # NoResult)
       => algOut.tag \in {"ok", "throws"}

\* The four weight pairs of Multi-Start-Nearest-Neighbor, priority weight and
\* distance weight in tenths.
fixedWeightPairs == { <<2, 8>>, <<3, 7>>, <<4, 6>>, <<5, 5>> }

\* The ids of the route the weighted nearest neighbor builds on the run's
\* matrix with a weight pair.
candidateIds(pair) ==
    LET route == nearestNeighborWithPriority(geocodeOrders(algIn.orders, algIn.env),
                                             inputDistances, pair[1], pair[2])
    IN [k \in 1..Len(route) |-> route[k].id]

\* The traffic-aware duration of a cell of the provider's matrix.
trafficSeconds(cell) == IF cell.hasTraffic THEN cell.traffic ELSE cell.duration

\* The cost of traversing a sequence of ids: the traffic-aware durations of
\* the legs the matrix has data for, added up.
traversalCost(ids) ==
    LET legs == { i \in 1..(Len(ids) - 1) : algIn.env.cells[<<ids[i], ids[i + 1]>>].ok }
    IN sumOver([i \in legs |-> trafficSeconds(algIn.env.cells[<<ids[i], ids[i + 1]>>])], legs)

multiStartRun ==
    /\ ranOn("matrix") \/ ranOn("multistart")
    /\ algIn.options.algorithm = GENETIC_ALGORITHM
    /\ algOut.algorithm = GENETIC_ALGORITHM

\* C18: Multi-Start-Nearest-Neighbor runs the weighted nearest neighbor with
\* the four weight pairs 0.2/0.8, 0.3/0.7, 0.4/0.6, 0.5/0.5 on one matrix
\* and returns a candidate whose traversal cost over the whole sequence is
\* less than or equal to the cost of each of the other candidates.
C18_LowestCostCandidate ==
    multiStartRun =>
        /\ algOut.run.mxCalls = 1
        /\ \E candidates \in {[pair \in fixedWeightPairs |-> candidateIds(pair)]} :
              \E pair \in fixedWeightPairs :
                 /\ emittedIds = candidates[pair]
                 /\ \A other \in fixedWeightPairs :
                       traversalCost(emittedIds) <= traversalCost(candidates[other])

\* The weight pairs give routes of different cost, and the first leg of the
\* one returned is not the shortest first leg.
C18_Witness ==
    /\ multiStartRun
    /\ \A q \in DOMAIN algIn.env.cells : algIn.env.cells[q].ok
    /\ \E other \in fixedWeightPairs :
          /\ traversalCost(emittedIds) < traversalCost(candidateIds(other))
          /\ trafficSeconds(algIn.env.cells[<<emittedIds[1], emittedIds[2]>>])
                > trafficSeconds(algIn.env.cells[<<candidateIds(other)[1],
                                                   candidateIds(other)[2]>>])

\* The run came out of priorityWithDistanceOptimization.
bucketRun == algOut.tag = "ok" /\ algOut.algorithm = "PRIORITY_WITH_DISTANCE"

\* The ids of one priority as the output has them, and as the input does.
idsOfPriority(sequence, priority) ==
    LET hasPriority(o) == o.priority = priority
        bucket == SelectSeq(sequence, hasPriority)
    IN [k \in 1..Len(bucket) |-> bucket[k].id]

\* C19: in every Priority-with-Distance output, whatever the matrix and
\* whichever orders are geocoded, each order of a higher priority precedes
\* each order of a lower priority: the nearest-neighbor reordering stays
\* inside a priority bucket.
C19_BucketsInOrder ==
    bucketRun =>
        /\ everyOrderOnce
        /\ \A i, j \in 1..Len(algOut.optimizedSequence) :
              i < j => priorityOrder(algOut.optimizedSequence[i].priority)
                          >= priorityOrder(algOut.optimizedSequence[j].priority)

\* Two buckets, the higher one reordered by the matrix.
C19_Witness ==
    /\ bucketRun
    /\ algOut.run.usedMatrix
    /\ algOut.optimizedSequence[Len(algOut.optimizedSequence)].priority = "NORMAL"
    /\ Len(idsOfPriority(algOut.optimizedSequence, "HIGH")) >= 3
    /\ idsOfPriority(algOut.optimizedSequence, "HIGH") # idsOfPriority(algIn.orders, "HIGH")
    /\ algIn.orders[1].priority = "NORMAL"

\* The run came out of nearestNeighborOptimization with the default weights.
weightedRun ==
    /\ algIn.kind \in {"matrix", "multistart"}
    /\ algOut.tag = "ok"
    /\ algOut.run.entered = <<"nearestNeighborOptimization">>
    /\ algOut.algorithm = NEAREST_NEIGHBOR

rankOfId(id) ==
    LET p == priorityOfId(id)
    IN IF p = "URGENT" THEN 4 ELSE IF p = "HIGH" THEN 3 ELSE IF p = "NORMAL" THEN 2 ELSE 1

\* 144000 times 0.7 x (seconds / 3600) + 0.3 x ((5 - rank) / 4) for the leg
\* from one stop to a candidate.
defaultScore(from, candidate) ==
    28 * trafficSeconds(algIn.env.cells[<<from, candidate>>]) + 10800 * (5 - rankOfId(candidate))

\* The unvisited candidates with an edge from the stop before position k
\* in the distances the run's matrix call returned.
candidatesAt(distances, k) ==
    { c \in unvisitedBefore(k) : hasEdge(distances, emittedIds[k - 1], c) }

\* The place of an order in the input list.
inputPlace(id) == CHOOSE k \in 1..Len(algIn.orders) : algIn.orders[k].id = id

\* Candidates are looked at by priority rank descending, within a rank in
\* input order.
lookedAtBefore(a, b) ==
    \/ rankOfId(a) > rankOfId(b)
    \/ rankOfId(a) = rankOfId(b) /\ inputPlace(a) <= inputPlace(b)

\* C20: Priority-Weighted-Nearest-Neighbor starts from an order of highest
\* priority among all input orders, and at every later step where some
\* unvisited candidate has an edge from the current stop it appends the
\* candidate of minimum score 0.7 x (traffic duration in hours) + 0.3 x
\* ((5 - rank) / 4), the default weights; the lower score wins and of equal
\* scores the candidate looked at first.
C20_MinimumScoreStep ==
    weightedRun =>
        /\ \A id \in inputIds : rankOfId(emittedIds[1]) >= rankOfId(id)
        /\ \E distances \in {inputDistances} :
              \A k \in 2..Len(emittedIds) :
                 \E candidates \in {candidatesAt(distances, k)} :
                    candidates # {} =>
                       /\ emittedIds[k] \in candidates
                       /\ \A c \in candidates :
                             \/ defaultScore(emittedIds[k - 1], emittedIds[k])
                                   < defaultScore(emittedIds[k - 1], c)
                             \/ /\ defaultScore(emittedIds[k - 1], emittedIds[k])
                                      = defaultScore(emittedIds[k - 1], c)
                                /\ lookedAtBefore(emittedIds[k], c)

\* At the second stop the candidate of higher priority is taken over a
\* nearer one, and the input does not begin with the order the route starts
\* from.
C20_Witness ==
    /\ weightedRun
    /\ algIn.kind = "multistart"
    /\ emittedIds[1] # algIn.orders[1].id
    /\ \E c \in candidatesAt(inputDistances, 2) :
          /\ trafficSeconds(algIn.env.cells[<<emittedIds[1], c>>])
                < trafficSeconds(algIn.env.cells[<<emittedIds[1], emittedIds[2]>>])
          /\ rankOfId(c) < rankOfId(emittedIds[2])

(***************************************************************************)
(* RouteBuilder: the route with navigation data built on the optimizer's   *)
(* sequence.  env.again is the outcome of the builder's own resolve of an  *)
(* order the optimizer left without coordinates, env.directions whether    *)
(* the directions provider answers.  The builder's matrix call is the next *)
(* call after those of the optimizer run.  Durations in minutes, distances *)
(* in hundredths of a kilometre; the texts are kept as tagged tuples.      *)
(***************************************************************************)
\* Math.ceil(seconds / 60)
ceilMinutes(seconds) == (seconds + 59) \div 60

geocodeRouteOrders(orders, env) ==
    [k \in 1..Len(orders) |->
        LET order == orders[k]
            outcome == IF order.coordinates THEN "valid" ELSE env.again[order.id]
        IN [ id |-> order.id,
             priority |-> order.priority,
             sequenceNumber |-> order.sequenceNumber,
             coordinates |-> outcome = "valid",
             geocoded |-> outcome = "valid",
             geocodingError |-> CASE outcome = "valid" -> NoValue
                                  [] outcome = "invalid" -> "ZERO_RESULTS"
                                  [] OTHER -> "Failed to geocode address" ]]

\* The orders of a list that are geocoded, in list order.
RECURSIVE validOrdersOf(_)
validOrdersOf(geocodedRoute) ==
    IF geocodedRoute = <<>> THEN <<>>
    ELSE (IF Head(geocodedRoute).geocoded THEN <<Head(geocodedRoute)>> ELSE <<>>)
            \o validOrdersOf(Tail(geocodedRoute))

\* createBasicRouteDetails: 15 minutes and 5 km an order.  The record has no
\* distanceMatrix, no totalDurationInTrafficMinutes and no geocodingRate.
createBasicRouteDetails(orders) ==
    [ totalDistanceKm |-> Len(orders) * 5 * 100,
      totalDurationText |-> <<"minutes", Len(orders) * 15>>,
      totalDurationInTrafficText |-> <<"minutes", (Len(orders) * 15 * 12 + 9) \div 10>>,
      detailedStops |->
          [k \in 1..Len(orders) |->
              [ stopNumber |-> k,
                orderId |-> orders[k].id,
                priority |-> orders[k].priority,
                estimatedArrivalTime |-> <<"minutes from start", k * 15>>,
                hasArrivalMinutes |-> FALSE,
                geocoded |-> orders[k].geocoded ]],
      estimatedData |-> TRUE,
      hasDistanceMatrix |-> FALSE,
      hasTrafficMinutes |-> FALSE,
      geocodingSuccess |-> Len(validOrdersOf(orders)),
      geocodingTotal |-> Len(orders) ]

calculateSequentialRouteTotals(orders, distances) ==
    LET steps == { i \in 1..(Len(orders) - 1) : hasEdge(distances, orders[i].id, orders[i + 1].id) }
        distanceInfo == [i \in steps |-> edgeOf(distances, orders[i].id, orders[i + 1].id)]
        cumulativeDistance == sumOver([i \in steps |-> distanceInfo[i].distanceMeters], steps)
        cumulativeDuration == sumOver([i \in steps |-> distanceInfo[i].durationSeconds], steps)
        cumulativeDurationInTraffic ==
            sumOver([i \in steps |-> distanceInfo[i].durationInTrafficSeconds], steps)
    IN [ totalDistanceMeters |-> cumulativeDistance,
         totalDistanceKm |-> toFixed2Km(cumulativeDistance),
         totalDurationSeconds |-> cumulativeDuration,
         totalDurationMinutes |-> ceilMinutes(cumulativeDuration),
         totalDurationInTrafficSeconds |-> cumulativeDurationInTraffic,
         totalDurationInTrafficMinutes |-> ceilMinutes(cumulativeDurationInTraffic),
         totalDurationText |-> formatDuration(cumulativeDuration),
         totalDurationInTrafficText |-> formatDuration(cumulativeDurationInTraffic),
         routeSegments |-> { i \in steps : TRUE } ]

\* A stop list whose travel minutes are rounded down.
RECURSIVE buildDetailedStops_roundsDown(_, _, _, _)
buildDetailedStops_roundsDown(orders, distances, stops, cumulativeTime) ==
    IF Len(stops) = Len(orders) THEN stops
    ELSE LET index == Len(stops) + 1
             order == orders[index]
             travelTimeToStop ==
                 IF index > 1 /\ hasEdge(distances, orders[index - 1].id, order.id)
                 THEN edgeOf(distances, orders[index - 1].id, order.id).durationInTrafficSeconds \div 60
                 ELSE 0
             arrival == cumulativeTime + travelTimeToStop
         IN buildDetailedStops_roundsDown(
                orders, distances,
                Append(stops, [ stopNumber |-> index,
                                orderId |-> order.id,
                                priority |-> order.priority,
                                estimatedArrivalTime |-> <<"minutes from start", arrival>>,
                                hasArrivalMinutes |-> TRUE,
                                estimatedArrivalMinutes |-> arrival,
                                travelTimeFromPrevious |-> travelTimeToStop,
                                deliveryTimeEstimate |-> 10,
                                geocoded |-> order.geocoded ]),
                arrival + 10)

\* buildDetailedStops: the forEach over the orders, with the stops pushed so
\* far and cumulativeTime as loop state; deliveryTimeMinutes is 10.
RECURSIVE buildDetailedStops(_, _, _, _)
buildDetailedStops(orders, distances, stops, cumulativeTime) ==
    IF Len(stops) = Len(orders) THEN stops
    ELSE LET index == Len(stops) + 1
             order == orders[index]
             travelTimeToStop ==
                 IF index > 1 /\ hasEdge(distances, orders[index - 1].id, order.id)
                 THEN ceilMinutes(edgeOf(distances, orders[index - 1].id, order.id).durationInTrafficSeconds)
                 ELSE 0
             arrival == cumulativeTime + travelTimeToStop
         IN buildDetailedStops(
                orders, distances,
                Append(stops, [ stopNumber |-> index,
                                orderId |-> order.id,
                                priority |-> order.priority,
                                estimatedArrivalTime |-> <<"minutes from start", arrival>>,
                                hasArrivalMinutes |-> TRUE,
                                estimatedArrivalMinutes |-> arrival,
                                travelTimeFromPrevious |-> travelTimeToStop,
                                deliveryTimeEstimate |-> 10,
                                geocoded |-> order.geocoded ]),
                arrival + 10)

\* ((validOrders.length / geocodedRoute.length) * 100).toFixed(2), in
\* hundredths of a percent.
geocodingRate(valid, total) == ((valid * 100000) \div total + 5) \div 10

\* A calculateRouteDetails without the estimate: it raises what the matrix
\* call raised, and on fewer than two geocoded stops.
calculateRouteDetails_noEstimate(geocodedRoute, options, env, callNo) ==
    LET validOrders == validOrdersOf(geocodedRoute)
        deliveryPoints == [k \in 1..Len(validOrders) |-> validOrders[k].id]
        distanceData == calculateDeliveryDistances(deliveryPoints, env, callNo)
    IN IF Len(validOrders) < 2 \/ distanceData.tag = "throws"
       THEN [tag |-> "throws"]
       ELSE [tag |-> "ok", matrixCalls |-> 1,
             details |->
                 [ totals |-> calculateSequentialRouteTotals(validOrders, distanceData.distances),
                   detailedStops |-> buildDetailedStops(geocodedRoute, distanceData.distances, <<>>, 0),
                   estimatedData |-> FALSE,
                   hasDistanceMatrix |-> TRUE,
                   hasTrafficMinutes |-> TRUE,
                   geocodingSuccess |-> Len(validOrders),
                   geocodingTotal |-> Len(geocodedRoute),
                   geocodingRate |-> geocodingRate(Len(validOrders), Len(geocodedRoute)) ]]

\* calculateRouteDetails: the estimate when fewer than two stops are
\* geocoded and in the catch; matrixCalls is the number of matrix calls made.
calculateRouteDetails(geocodedRoute, options, env, callNo) ==
    LET validOrders == validOrdersOf(geocodedRoute)
        deliveryPoints == [k \in 1..Len(validOrders) |-> validOrders[k].id]
        distanceData == calculateDeliveryDistances(deliveryPoints, env, callNo)
    IN IF Len(validOrders) < 2
       THEN [tag |-> "ok", matrixCalls |-> 0, details |-> createBasicRouteDetails(geocodedRoute)]
       ELSE IF distanceData.tag = "throws"
       THEN [tag |-> "ok", matrixCalls |-> 1, details |-> createBasicRouteDetails(geocodedRoute)]
       ELSE [tag |-> "ok", matrixCalls |-> 1,
             details |->
                 [ totals |-> calculateSequentialRouteTotals(validOrders, distanceData.distances),
                   detailedStops |-> buildDetailedStops(geocodedRoute, distanceData.distances, <<>>, 0),
                   estimatedData |-> FALSE,
                   hasDistanceMatrix |-> TRUE,
                   hasTrafficMinutes |-> TRUE,
                   geocodingSuccess |-> Len(validOrders),
                   geocodingTotal |-> Len(geocodedRoute),
                   geocodingRate |-> geocodingRate(Len(validOrders), Len(geocodedRoute)) ]]

\* generateTurnByTurnDirections: available when two stops are geocoded and
\* the directions provider answers; every failure is caught.
generateTurnByTurnDirections(geocodedRoute, options, env) ==
    LET validOrders == validOrdersOf(geocodedRoute)
    IN IF Len(validOrders) < 2 THEN [available |-> FALSE, error |-> FALSE, called |-> FALSE]
       ELSE IF env.directions = "ok"
       THEN [available |-> TRUE, error |-> FALSE, called |-> TRUE]
       ELSE [available |-> FALSE, error |-> TRUE, called |-> TRUE]

\* generateMapUrl: the geocoded stops in order, or null.
generateMapUrl(geocodedRoute) ==
    LET validOrders == validOrdersOf(geocodedRoute)
    IN IF Len(validOrders) = 0 THEN NoValue
       ELSE [k \in 1..Len(validOrders) |-> validOrders[k].id]

\* buildFinalRouteStructure.  The sum undefined + n * 10 of the estimate is
\* not a number; an absent geocodingRate is NoValue.
buildFinalRouteStructure(driverId, optimizationResult, geocodedRoute, routeDetails, directions, mapUrl, options) ==
    [ tag |-> "ok",
      success |-> TRUE,
      driverId |-> driverId,
      routeInfo |->
          [ totalOrders |-> Len(geocodedRoute),
            algorithm |-> optimizationResult.algorithm,
            estimatedImprovement |-> optimizationResult.metadata.estimatedImprovement,
            realDistanceCalculated |-> routeDetails.hasDistanceMatrix ],
      routeMetrics |->
          [ totalDistance |->
                <<"km2", IF routeDetails.estimatedData THEN routeDetails.totalDistanceKm
                         ELSE routeDetails.totals.totalDistanceKm>>,
            totalDuration |->
                IF routeDetails.estimatedData THEN routeDetails.totalDurationText
                ELSE routeDetails.totals.totalDurationText,
            totalDurationInTraffic |->
                IF routeDetails.estimatedData THEN routeDetails.totalDurationInTrafficText
                ELSE routeDetails.totals.totalDurationInTrafficText,
            estimatedDeliveryTime |->
                IF routeDetails.hasTrafficMinutes
                THEN <<"minutes", routeDetails.totals.totalDurationInTrafficMinutes
                                     + Len(geocodedRoute) * 10>>
                ELSE <<"NaN minutes">>,
            geocodingSuccessRate |->
                IF routeDetails.estimatedData THEN NoValue
                ELSE <<"%", routeDetails.geocodingRate>> ],
      deliveryStops |-> routeDetails.detailedStops,
      navigation |->
          [ directionsAvailable |-> directions.available,
            mapUrl |-> mapUrl ],
      optimization |->
          [ algorithm |-> optimizationResult.algorithm,
            originalSequence |->
                [k \in 1..Len(optimizationResult.optimizedSequence) |->
                    optimizationResult.optimizedSequence[k].sequenceNumber] ],
      options |-> options ]

\* RouteBuilder.buildDriverRoute from step 3 on, the optimizer's result and
\* the geocoded route in hand.  calls are the provider calls the builder
\* made of its own (resolves, matrix calls, directions calls).
routeOfGeocoded(driverId, optimizationResult, geocodedRoute, routeDetails, options, env) ==
    LET directions ==
            IF options.includeDirections
            THEN generateTurnByTurnDirections(geocodedRoute, options, env)
            ELSE [available |-> FALSE, error |-> FALSE, called |-> FALSE]
        mapUrl == IF options.generateMapUrl THEN generateMapUrl(geocodedRoute) ELSE NoValue
    IN IF routeDetails.tag # "ok" THEN [tag |-> "throws"]
       ELSE [ finalRoute |->
                  buildFinalRouteStructure(driverId, optimizationResult, geocodedRoute,
                                           routeDetails.details, directions, mapUrl, options),
              tag |-> "ok",
              geocodedRoute |-> geocodedRoute,
              optimizerRun |-> optimizationResult.run,
              calls |->
                  [ geo |-> Cardinality({ k \in 1..Len(geocodedRoute) :
                                             ~optimizationResult.optimizedSequence[k].coordinates }),
                    mx |-> routeDetails.matrixCalls,
                    directions |-> IF directions.called THEN 1 ELSE 0 ] ]

\* RouteBuilder.buildDriverRoute from step 2 on.
routeOfOptimized(driverId, optimizationResult, options, env) ==
    IF optimizationResult.tag # "ok" THEN [tag |-> optimizationResult.tag]
    ELSE CHOOSE finalRoute \in
             { routeOfGeocoded(driverId, optimizationResult, geocodedRoute, routeDetails, options, env) :
                 <<geocodedRoute, routeDetails>> \in
                     { <<g, calculateRouteDetails(g, options, env, optimizationResult.run.mxCalls + 1)>> :
                         g \in {geocodeRouteOrders(optimizationResult.optimizedSequence, env)} } } : TRUE

\* RouteBuilder.buildDriverRoute: each step's value is computed once and
\* handed to the steps after it.
buildDriverRoute(driverId, orders, options, env) ==
    CHOOSE finalRoute \in
        { routeOfOptimized(driverId, optimizationResult, options, env) :
            optimizationResult \in
                { optimizeRoute(orders,
                                [ algorithm |-> options.algorithm,
                                  includeTraffic |-> options.includeTraffic,
                                  useCoordinates |-> FALSE,
                                  priorityWeight |-> 3,
                                  distanceWeight |-> 7 ],
                                env) } } : TRUE

\* RouteService.buildDriverRoute: no route without picked-up orders, else
\* the builder's route as data; an error of the builder is raised again.
serviceBuildDriverRoute(driverId, orders, options, env) ==
    IF Len(orders) = 0 THEN [tag |-> "ok", success |-> FALSE]
    ELSE CHOOSE response \in
             { IF completeRoute.tag # "ok" THEN [tag |-> completeRoute.tag]
               ELSE [tag |-> "ok", success |-> TRUE, data |-> completeRoute] :
                 completeRoute \in {buildDriverRoute(driverId, orders, options, env)} } : TRUE

\* The provider's durations for built routes, not whole minutes, and the
\* matrix over the ids 1..n made of them; some cells carry a traffic value.
BuildDurations == <<61, 119, 600>>

buildCellsOf(n, r, missing) ==
    [q \in (1..n) \X (1..n) |->
        LET d == BuildDurations[((2 * q[1] + q[2] + r) % 3) + 1]
        IN [ ok |-> q \notin missing,
             distance |-> 10 * d,
             duration |-> d,
             hasTraffic |-> (q[1] + q[2] + r) % 2 = 0,
             traffic |-> d + 45 ]]

\* Outcomes of the resolves: every address found, the first one without a
\* match, or every resolve raising.
BuildGeoPatterns(n) ==
    { [k \in 1..n |-> "valid"],
      [k \in 1..n |-> IF k = 1 THEN "invalid" ELSE "valid"],
      [k \in 1..n |-> "throws"] }

\* Outcomes of the builder's resolves: every address found, none, or the
\* first alone with the others raising.
BuildAgainPatterns(n) ==
    { [k \in 1..n |-> "valid"],
      [k \in 1..n |-> "invalid"],
      [k \in 1..n |-> IF k = 1 THEN "valid" ELSE "throws"] }

\* Routes are built for lists of up to MaxOrders orders (the empty list
\* too), named and default algorithm, with and without traffic and
\* navigation, failing matrix calls and cells without data.
InitBuild ==
    /\ \E n \in 0..MaxOrders :
         \E os \in OrderLists(n, {"URGENT", "NORMAL"}, {1}),
            alg \in {SERVICE_HYBRID, NEAREST_NEIGHBOR}, tr \in BOOLEAN,
            nav \in {"ok", "fails", "off"},
            geo \in BuildGeoPatterns(n), again \in BuildAgainPatterns(n),
            mf \in {{}, {1}, {2}, 1..3},
            r \in 0..1, miss \in {{}, {<<1, 2>>}, {<<2, 1>>, <<2, 3>>}} :
           algIn = [ kind |-> "build",
                     orders |-> os,
                     options |-> [ algorithm |-> alg,
                                   includeTraffic |-> tr,
                                   includeDirections |-> nav # "off",
                                   generateMapUrl |-> nav # "off" ],
                     env |-> [ geo |-> geo, again |-> again, mxFail |-> mf,
                               cells |-> buildCellsOf(n, r, miss), fault |-> {},
                               directions |-> IF nav = "fails" THEN "fails" ELSE "ok" ] ]
    /\ algOut = NoResult
    /\ geoIdle
    /\ svcIdle

RunBuild ==
    /\ algIn.kind = "build"
    /\ algOut = NoResult
    /\ algOut' = serviceBuildDriverRoute("d1", algIn.orders, algIn.options, algIn.env)
    /\ UNCHANGED <<algIn, geoVars, svcVars>>

NextBuild == RunBuild

SpecBuild == InitBuild /\ [][NextBuild]_vars

(***************************************************************************)
(* Properties of the RouteBuilder (SpecBuild).                             *)
(***************************************************************************)
\* A route was asked for a non-empty list and the call has returned.
builtRoute == algIn.kind = "build" /\ algOut # NoResult /\ Len(algIn.orders) >= 1

\* The stops of the built route, and how many of them are geocoded.
builtStops == algOut.data.finalRoute.deliveryStops

geocodedStops ==
    Cardinality({ k \in 1..Len(algOut.data.geocodedRoute) : algOut.data.geocodedRoute[k].geocoded })

\* The builder's matrix call, the one after the calls of the optimizer run,
\* is one the provider fails.
builderMatrixCallFails == (algOut.data.optimizerRun.mxCalls + 1) \in algIn.env.mxFail

\* C22: a route built for a non-empty order list always comes back as a
\* success; when fewer than two of its stops are geocoded, or the builder's
\* distance-matrix call fails, it is built without distance data
\* (realDistanceCalculated false, no matrix call at all in the first case)
\* and reports 5 km and 15 minutes an order, with one stop an order,
\* numbered 1..n in the optimizer's sequence.
C22_EstimateInsteadOfFailure ==
    builtRoute =>
        /\ algOut.tag = "ok"
        /\ algOut.success
        /\ algOut.data.finalRoute.success
        /\ (geocodedStops < 2 \/ builderMatrixCallFails) =>
              LET n == Len(algIn.orders)
                  finalRoute == algOut.data.finalRoute
              IN /\ ~finalRoute.routeInfo.realDistanceCalculated
                 /\ geocodedStops < 2 => algOut.data.calls.mx = 0
                 /\ finalRoute.routeInfo.totalOrders = n
                 /\ finalRoute.routeMetrics.totalDistance = <<"km2", n * 500>>
                 /\ finalRoute.routeMetrics.totalDuration = <<"minutes", n * 15>>
                 /\ Len(builtStops) = n
                 /\ \A k \in 1..n :
                       /\ builtStops[k].stopNumber = k
                       /\ builtStops[k].estimatedArrivalTime = <<"minutes from start", k * 15>>
                 /\ { builtStops[k].orderId : k \in 1..n } = { algIn.orders[k].id : k \in 1..n }

\* Three orders of which one is geocoded, in another order than the input's.
C22_Witness ==
    /\ builtRoute
    /\ algOut.tag = "ok"
    /\ Len(algIn.orders) = 3
    /\ geocodedStops = 1
    /\ builtStops[1].orderId # algIn.orders[1].id
    /\ algOut.data.finalRoute.routeMetrics.totalDistance = <<"km2", 1500>>
    /\ builtStops[3].stopNumber = 3

\* The route was built with distance data.
builtWithDistances ==
    /\ builtRoute
    /\ algOut.tag = "ok"
    /\ algOut.data.finalRoute.routeInfo.realDistanceCalculated

\* The provider has data for the leg into stop k: both stops are geocoded
\* and the cell from the stop before is answered.
legInto(k) == <<builtStops[k - 1].orderId, builtStops[k].orderId>>

hasLegInto(k) ==
    /\ builtStops[k - 1].geocoded
    /\ builtStops[k].geocoded
    /\ algIn.env.cells[legInto(k)].ok

\* The travel minutes into stop k: the traffic-aware seconds of the leg,
\* rounded up to whole minutes, 0 without data.
travelMinutesInto(k) ==
    IF hasLegInto(k)
    THEN LET seconds == trafficSeconds(algIn.env.cells[legInto(k)])
         IN CHOOSE m \in 0..seconds : 60 * m >= seconds /\ 60 * (m - 1) < seconds
    ELSE 0

\* C23: in a route built with distance data the estimated arrival of stop k
\* is the sum of the travel minutes into stops 2..k plus 10 minutes of
\* dwell for each of the k - 1 stops before it; the first arrival is 0 and
\* each arrival is at least 10 minutes after the one before.
C23_CumulativeArrival ==
    builtWithDistances =>
        /\ builtStops[1].estimatedArrivalMinutes = 0
        /\ \A k \in 1..Len(builtStops) :
              /\ builtStops[k].estimatedArrivalMinutes
                    = sumOver([j \in 2..k |-> travelMinutesInto(j)], 2..k) + 10 * (k - 1)
              /\ builtStops[k].estimatedArrivalTime
                    = <<"minutes from start", builtStops[k].estimatedArrivalMinutes>>
              /\ k > 1 => builtStops[k].estimatedArrivalMinutes
                             >= builtStops[k - 1].estimatedArrivalMinutes + 10

\* Three stops: the leg into the second takes a part of a minute more than
\* whole minutes, the leg into the third has no data.
C23_Witness ==
    /\ builtWithDistances
    /\ Len(builtStops) = 3
    /\ hasLegInto(2)
    /\ trafficSeconds(algIn.env.cells[legInto(2)]) % 60 # 0
    /\ builtStops[2].estimatedArrivalMinutes = travelMinutesInto(2) + 10
    /\ ~hasLegInto(3)
    /\ builtStops[3].estimatedArrivalMinutes = builtStops[2].estimatedArrivalMinutes + 10

(***************************************************************************)
(* Geocoder: the address cache in front of the geocoding provider.         *)
(* An address is a sequence of characters.  md5 is taken to be free of     *)
(* collisions, so a digest stands for the text it was computed from.  The  *)
(* columns of address_geocache that the Geocoder never reads back (area,   *)
(* governorate, geocodedAt) are left out of the rows.                      *)
(***************************************************************************)
toLowerCase(text) ==
    [k \in 1..Len(text) |->
        CASE text[k] = "A" -> "a"
          [] text[k] = "B" -> "b"
          [] text[k] = "C" -> "c"
          [] OTHER -> text[k]]

RECURSIVE trimStart(_)
trimStart(text) ==
    IF text # <<>> /\ Head(text) = " " THEN trimStart(Tail(text)) ELSE text

RECURSIVE trimEnd(_)
trimEnd(text) ==
    IF text # <<>> /\ text[Len(text)] = " "
    THEN trimEnd(SubSeq(text, 1, Len(text) - 1))
    ELSE text

trim(text) == trimEnd(trimStart(text))

\* A hash that tells apart addresses differing only in case or outer blanks.
createAddressHash_exact(address) == <<"md5", address>>

createAddressHash(address) == <<"md5", trim(toLowerCase(address))>>

\* prisma.addressGeoCache.findUnique({ where: { addressHash } })
findUniqueGeo(rows, addressHash) ==
    IF \E r \in rows : r.addressHash = addressHash
    THEN CHOOSE r \in rows : r.addressHash = addressHash
    ELSE [addressHash |-> NoValue]

getCachedCoordinates(rows, address) ==
    LET cached == findUniqueGeo(rows, createAddressHash(address))
    IN IF cached.addressHash # NoValue
       THEN [ tag |-> "ok",
              value |-> [ latitude |-> cached.latitude,
                          longitude |-> cached.longitude,
                          formattedAddress |-> cached.formattedAddress,
                          isValid |-> cached.isValid,
                          isGeocoded |-> cached.isGeocoded ] ]
       ELSE NoResult

\* A cache that keeps only the addresses the provider found.
cacheCoordinates_validOnly(rows, address, coordinates) ==
    IF coordinates.isValid
    THEN rows \cup {[ addressHash |-> createAddressHash(address),
                      originalAddress |-> address,
                      formattedAddress |-> coordinates.formattedAddress,
                      latitude |-> coordinates.latitude,
                      longitude |-> coordinates.longitude,
                      isValid |-> coordinates.isValid,
                      isGeocoded |-> coordinates.isGeocoded ]}
    ELSE rows

\* A cache whose write always creates a row.
cacheCoordinates_alwaysCreates(rows, address, coordinates) ==
    rows \cup {[ addressHash |-> createAddressHash(address),
                 originalAddress |-> address,
                 formattedAddress |-> coordinates.formattedAddress,
                 latitude |-> coordinates.latitude,
                 longitude |-> coordinates.longitude,
                 isValid |-> coordinates.isValid,
                 isGeocoded |-> coordinates.isGeocoded ]}

\* prisma.addressGeoCache.upsert: a row per addressHash, created or updated.
cacheCoordinates(rows, address, coordinates) ==
    LET addressHash == createAddressHash(address)
        old == findUniqueGeo(rows, addressHash)
        created == [ addressHash |-> addressHash,
                     originalAddress |-> address,
                     formattedAddress |-> coordinates.formattedAddress,
                     latitude |-> coordinates.latitude,
                     longitude |-> coordinates.longitude,
                     isValid |-> coordinates.isValid,
                     isGeocoded |-> coordinates.isGeocoded ]
    IN IF old.addressHash = NoValue
       THEN rows \cup {created}
       ELSE (rows \ {old}) \cup {[created EXCEPT !.originalAddress = old.originalAddress]}

\* What the provider may answer: a place or no match.
Places == {"P1", "P2"}
latitudeOf == [P1 |-> "30.06", P2 |-> "31.20"]
longitudeOf == [P1 |-> "31.22", P2 |-> "29.92"]
formattedOf == [P1 |-> <<"Z", "a", "m">>, P2 |-> <<"A", "l", "x">>]

ProviderAnswers ==
    [status : {"OK"}, place : Places] \cup {[status |-> "ZERO_RESULTS", place |-> NoValue]}

\* The object geocodeAddress builds from the provider's answer.
coordinatesFrom(address, data) ==
    IF data.status = "OK"
    THEN [ latitude |-> latitudeOf[data.place],
           longitude |-> longitudeOf[data.place],
           formattedAddress |-> formattedOf[data.place],
           isValid |-> TRUE,
           isGeocoded |-> TRUE ]
    ELSE [ latitude |-> NoValue,
           longitude |-> NoValue,
           formattedAddress |-> address,
           isValid |-> FALSE,
           isGeocoded |-> FALSE,
           error |-> data.status ]

Addresses == { <<"A", "b">>, <<" ", "a", "B", " ">>, <<"c">> }

logged(ev, caller, address, result) ==
    [ev |-> ev, caller |-> caller, address |-> address, result |-> result]

countOf(log, ev) == Cardinality({k \in 1..Len(log) : log[k].ev = ev})

\* The calls that have sent a request to the provider and not yet returned.
inFlight == Cardinality({c \in Callers : resolving[c].pc # "idle"})

\* The callers are interchangeable: a new call takes the first free one.
freeCaller == CHOOSE c \in Callers : resolving[c].pc = "idle"

\* geocodeAddress up to the provider's answer: the cache is read, a hit is
\* returned, and on a miss the request to the provider is sent.
GeoLookup(c, address) ==
    /\ resolving[c].pc = "idle"
    /\ c = freeCaller
    /\ Len(geoLog) + inFlight + 2 <= MaxGeoEvents
    /\ LET cached == getCachedCoordinates(geocache, address)
       IN IF cached.tag = "ok"
          THEN /\ geoLog' = Append(geoLog, logged("hit", c, address, cached))
               /\ UNCHANGED resolving
          ELSE /\ geoLog' = Append(geoLog, logged("miss", c, address, NoResult))
               /\ resolving' = [resolving EXCEPT ![c] =
                                   [pc |-> "fetch", address |-> address, pending |-> NoResult]]
    /\ UNCHANGED <<geocache, algVars, svcVars>>

\* The provider does not answer: the error is raised and nothing is stored.
GeoFail(c) ==
    /\ resolving[c].pc = "fetch"
    /\ geoLog' = Append(geoLog, logged("end", c, resolving[c].address, [tag |-> "throws"]))
    /\ resolving' = [resolving EXCEPT ![c] = idleCall]
    /\ UNCHANGED <<geocache, algVars, svcVars>>

\* The provider answers: the outcome is written to the cache and returned.
\* (Between the answer and the write the call touches nothing shared, so the
\* two are one step.)
GeoAnswer(c) ==
    /\ resolving[c].pc = "fetch"
    /\ \E data \in ProviderAnswers :
          LET address == resolving[c].address
              coordinates == coordinatesFrom(address, data)
          IN /\ geocache' = cacheCoordinates(geocache, address, coordinates)
             /\ geoLog' = Append(geoLog, logged("end", c, address,
                                               [tag |-> "ok", value |-> coordinates]))
    /\ resolving' = [resolving EXCEPT ![c] = idleCall]
    /\ UNCHANGED <<algVars, svcVars>>

\* RouteService.clearGeocache: deleteMany({}).
clearGeocache ==
    /\ Len(geoLog) + inFlight + 1 <= MaxGeoEvents
    /\ geocache' = {}
    /\ geoLog' = Append(geoLog, logged("clear", NoValue, <<>>, NoResult))
    /\ UNCHANGED <<resolving, algVars, svcVars>>

InitGeo == geoIdle /\ algIdle /\ svcIdle

NextGeo ==
    \/ \E c \in Callers, address \in Addresses : GeoLookup(c, address)
    \/ \E c \in Callers : GeoFail(c)
    \/ \E c \in Callers : GeoAnswer(c)
    \/ clearGeocache

SpecGeo == InitGeo /\ [][NextGeo]_vars

(***************************************************************************)
(* Properties of the Geocoder (SpecGeo), read off the log.                 *)
(***************************************************************************)
logIndex == 1..Len(geoLog)

\* Two events are about one normalized address: equal after lower-casing
\* and trimming.
sameAddress(i, k) ==
    trim(toLowerCase(geoLog[i].address)) = trim(toLowerCase(geoLog[k].address))

\* The event at which the resolve that read the cache at event i returns;
\* 0 while it has not returned.
endOf(i) ==
    IF geoLog[i].ev = "hit" THEN i
    ELSE LET ends == { j \in (i + 1)..Len(geoLog) :
                          geoLog[j].ev = "end" /\ geoLog[j].caller = geoLog[i].caller }
         IN IF ends = {} THEN 0 ELSE CHOOSE j \in ends : \A k \in ends : j <= k

isLookup(i) == geoLog[i].ev \in {"hit", "miss"}

\* Every resolve of the address read at i that started before i has returned.
quietAt(i) ==
    \A k \in 1..(i - 1) :
        (geoLog[k].ev = "miss" /\ sameAddress(k, i)) => endOf(k) \in 1..(i - 1)

\* Two resolves of one normalized address, the second after the first has
\* returned, the first on a cold cache, nothing else touching the address
\* or clearing the cache meanwhile.
resolvedTwice(i1, i2) ==
    /\ geoLog[i1].ev = "miss"
    /\ isLookup(i2)
    /\ endOf(i1) \in (i1 + 1)..(i2 - 1)
    /\ endOf(i2) # 0
    /\ sameAddress(i1, i2)
    /\ quietAt(i1)
    /\ \A k \in i1..endOf(i2) :
          /\ geoLog[k].ev # "clear"
          /\ k \notin {i1, endOf(i1), i2, endOf(i2)} => ~sameAddress(k, i1)

sameCoordinates(a, b) ==
    /\ a.latitude = b.latitude
    /\ a.longitude = b.longitude
    /\ a.formattedAddress = b.formattedAddress
    /\ a.isValid = b.isValid
    /\ a.isGeocoded = b.isGeocoded

afterNoMatch(j, i2) ==
    /\ geoLog[j].ev = "end"
    /\ geoLog[j].result.tag = "ok"
    /\ ~geoLog[j].result.value.isValid
    /\ j < i2
    /\ isLookup(i2)
    /\ sameAddress(j, i2)
    /\ \A k \in j..i2 : geoLog[k].ev # "clear"

\* A resolve of the address of event j is answered with a place between the
\* events j and i2.
matchedBetween(j, i2) ==
    \E k \in (j + 1)..(i2 - 1) :
        /\ geoLog[k].ev = "end"
        /\ sameAddress(k, j)
        /\ geoLog[k].result.tag = "ok"
        /\ geoLog[k].result.value.isValid

\* The last answer of the provider for the address read at i2, before i2.
lastAnswer(i2) ==
    LET answers == { k \in 1..(i2 - 1) :
                        /\ geoLog[k].ev = "end"
                        /\ sameAddress(k, i2)
                        /\ geoLog[k].result.tag = "ok" }
    IN CHOOSE k \in answers : \A m \in answers : m <= k

invalidCoordinate(result) ==
    /\ result.tag = "ok"
    /\ result.value.latitude = NoValue
    /\ result.value.longitude = NoValue
    /\ ~result.value.isValid
    /\ ~result.value.isGeocoded

bothMissed(i1, i2) ==
    /\ geoLog[i1].ev = "miss"
    /\ geoLog[i2].ev = "miss"
    /\ i1 < i2
    /\ sameAddress(i1, i2)
    /\ endOf(i1) > i2
    /\ endOf(i2) # 0
    /\ geoLog[endOf(i1)].result.tag = "ok"
    /\ geoLog[endOf(i2)].result.tag = "ok"
    /\ \A k \in i1..Len(geoLog) : geoLog[k].ev # "clear"

\* The rows the cache holds for the normalized address of event i.
entriesOf(i) ==
    { row \in geocache : row.addressHash = createAddressHash(geoLog[i].address) }

AddressedOrders(n) ==
    { [k \in 1..n |-> [ id |-> k,
                        deliveryAddress |-> as[k],
                        coordinates |-> (given /\ k = 1) ]] :
        as \in [1..n -> Addresses], given \in BOOLEAN }

geocodeOrdersCaller == "c1"

\* geocodedOrders.push(...) for the order in turn.
pushed(outcome) ==
    LET order == algIn.orders[Len(algOut.geocodedOrders) + 1]
    IN [ tag |-> IF Len(algOut.geocodedOrders) + 1 = Len(algIn.orders)
                 THEN "ok" ELSE "geocoding",
         geocodedOrders |-> Append(algOut.geocodedOrders,
                                   [order EXCEPT !.coordinates = outcome \in {"given", "valid"}]),
         outcomes |-> Append(algOut.outcomes, outcome) ]

outcomeOf(coordinates) == IF coordinates.isValid THEN "valid" ELSE "invalid"

\* The loop takes the next order: one with coordinates is pushed as it is,
\* one without is resolved, from the cache or by a request to the provider.
GeocodeOrdersNext ==
    /\ algIn.kind = "geocode"
    /\ algOut.tag = "geocoding"
    /\ resolving[geocodeOrdersCaller].pc = "idle"
    /\ LET order == algIn.orders[Len(algOut.geocodedOrders) + 1]
           address == order.deliveryAddress
           cached == getCachedCoordinates(geocache, address)
       IN IF order.coordinates
          THEN /\ algOut' = pushed("given")
               /\ UNCHANGED <<geoLog, resolving>>
          ELSE IF cached.tag = "ok"
          THEN /\ algOut' = pushed(outcomeOf(cached.value))
               /\ geoLog' = Append(geoLog, logged("hit", geocodeOrdersCaller, address, cached))
               /\ UNCHANGED resolving
          ELSE /\ geoLog' = Append(geoLog, logged("miss", geocodeOrdersCaller, address, NoResult))
               /\ resolving' = [resolving EXCEPT ![geocodeOrdersCaller] =
                                   [pc |-> "fetch", address |-> address, pending |-> NoResult]]
               /\ UNCHANGED algOut
    /\ UNCHANGED <<algIn, geocache, svcVars>>

\* The provider answers the order's resolve: the outcome is cached and the
\* order pushed with the coordinates, or with null when they are invalid.
GeocodeOrdersAnswer ==
    /\ algIn.kind = "geocode"
    /\ resolving[geocodeOrdersCaller].pc = "fetch"
    /\ \E data \in ProviderAnswers :
          LET address == resolving[geocodeOrdersCaller].address
              coordinates == coordinatesFrom(address, data)
          IN /\ geocache' = cacheCoordinates(geocache, address, coordinates)
             /\ geoLog' = Append(geoLog, logged("end", geocodeOrdersCaller, address,
                                               [tag |-> "ok", value |-> coordinates]))
             /\ algOut' = pushed(outcomeOf(coordinates))
    /\ resolving' = [resolving EXCEPT ![geocodeOrdersCaller] = idleCall]
    /\ UNCHANGED <<algIn, svcVars>>

\* The provider call fails: geocodeAddress raises, the loop catches the
\* error and pushes the order with coordinates null.
GeocodeOrdersCatch ==
    /\ algIn.kind = "geocode"
    /\ resolving[geocodeOrdersCaller].pc = "fetch"
    /\ geoLog' = Append(geoLog, logged("end", geocodeOrdersCaller,
                                      resolving[geocodeOrdersCaller].address,
                                      [tag |-> "throws"]))
    /\ algOut' = pushed("throws")
    /\ resolving' = [resolving EXCEPT ![geocodeOrdersCaller] = idleCall]
    /\ UNCHANGED <<algIn, geocache, svcVars>>

InitBatch ==
    /\ \E n \in 1..MaxOrders : \E os \in AddressedOrders(n) :
          algIn = [kind |-> "geocode", orders |-> os]
    /\ algOut = [tag |-> "geocoding", geocodedOrders |-> <<>>, outcomes |-> <<>>]
    /\ geoIdle
    /\ svcIdle

NextBatch == GeocodeOrdersNext \/ GeocodeOrdersAnswer \/ GeocodeOrdersCatch

SpecBatch == InitBatch /\ [][NextBatch]_vars

\* The outcomes of the resolves as the heuristics are given them.
outcomesById ==
    [id \in 1..Len(algOut.outcomes) |->
        IF algOut.outcomes[id] = "given" THEN "valid" ELSE algOut.outcomes[id]]

\* A resolve that raised has written nothing to the cache.
raisedWithoutWrite ==
    (/\ Len(geoLog') = Len(geoLog) + 1
     /\ geoLog'[Len(geoLog')].result.tag = "throws") => geocache' = geocache

\* After a resolve that raised, the next resolve of the same normalized
\* address, with no answer for it in between, calls the provider again.
retriedAfterRaise ==
    \A j, i2 \in logIndex :
        (/\ geoLog[j].ev = "end"
         /\ geoLog[j].result.tag = "throws"
         /\ j < i2
         /\ isLookup(i2)
         /\ sameAddress(j, i2)
         /\ \A k \in (j + 1)..(i2 - 1) : ~sameAddress(k, j)
         /\ \A k \in 1..j : geoLog[k].ev = "end" /\ sameAddress(k, j)
                                 => geoLog[k].result.tag = "throws")
            => geoLog[i2].ev = "miss"

\* The loop goes on after an error: every order is pushed, in place, the
\* orders whose resolve raised with coordinates null, and every order
\* without coordinates has been resolved.
continuedAfterRaise ==
    /\ Len(algOut.geocodedOrders) = Len(algOut.outcomes)
    /\ \A k \in 1..Len(algOut.outcomes) :
          /\ algOut.geocodedOrders[k].id = algIn.orders[k].id
          /\ algOut.outcomes[k] = "throws" => ~algOut.geocodedOrders[k].coordinates
    /\ algOut.tag = "ok" =>
          /\ algOut.geocodedOrders = geocodeOrders(algIn.orders, [geo |-> outcomesById])
          /\ countOf(geoLog, "hit") + countOf(geoLog, "miss") = geocodeCalls(algIn.orders)

\* C12: when the provider call of a resolve fails, the resolve raises an
\* error and writes nothing to the cache, so a later resolve of the same
\* address calls the provider again; geocodeOrders turns the error into
\* coordinates = null for that order and continues with the other orders.
C12_RaiseNotCached ==
    /\ [][algIn.kind = "geocode" => raisedWithoutWrite]_vars
    /\ [](algIn.kind = "geocode" => retriedAfterRaise /\ continuedAfterRaise)

\* Two orders to one address and a third: the resolve of the first raises,
\* the second asks the provider again and is answered, the third is
\* resolved too.
C12_Witness ==
    /\ algIn.kind = "geocode"
    /\ algOut.tag = "ok"
    /\ algOut.outcomes = <<"throws", "valid", "valid">>
    /\ sameAddress(1, 3)
    /\ geoLog[3].ev = "miss"
    /\ ~algOut.geocodedOrders[1].coordinates
    /\ algOut.geocodedOrders[2].coordinates
    /\ algOut.geocodedOrders[3].coordinates

(***************************************************************************)
(* RouteService: optimize and clear over the RouteOptimizations table.     *)
(* A driver's picked-up orders are the list fixedOrders(n) in the order of *)
(* the query (priority descending, then creation time).  A response is a   *)
(* record with exactly the fields of the object the service returns.       *)
(***************************************************************************)
PickedCounts == {0, 1, 2}

getDriverPickedUpOrders(count) ==
    LET orders == arraySort("priorityThenCreated", fixedOrders(count))
    IN [data |-> orders, count |-> Len(orders)]

\* The option objects callers pass, forceRecalculate apart: the defaults,
\* traffic requested, a heuristic named, the provider switched off.
CallerOptions ==
    { [includeTraffic |-> o[1], algorithm |-> o[2], useGoogleMaps |-> o[3]] :
        o \in { <<FALSE, NoValue, TRUE>>, <<TRUE, NoValue, TRUE>>,
                <<FALSE, NEAREST_NEIGHBOR, TRUE>>, <<FALSE, NoValue, FALSE>> } }

optionsOf(forceRecalculate) ==
    [ forceRecalculate |-> forceRecalculate,
      includeTraffic |-> passed.includeTraffic,
      algorithm |-> passed.algorithm,
      useGoogleMaps |-> passed.useGoogleMaps ]

\* What the outside may do during one run of the optimizer.
ServiceEnvs(n) ==
    { noFailure(n),
      [noFailure(n) EXCEPT !.mxFail = 1..MaxEntered],
      [noFailure(n) EXCEPT !.geo = [k \in 1..n |-> "throws"]],
      [noFailure(n) EXCEPT !.geo = [k \in 1..n |-> IF k = 1 THEN "invalid" ELSE "valid"]],
      [noFailure(n) EXCEPT !.cells = cellsOf(n, 0, {<<1, 2>>, <<2, 1>>})],
      [noFailure(n) EXCEPT !.fault = {"nearestNeighborOptimization"}],
      [noFailure(n) EXCEPT !.fault = Heuristics] }

NullData == [isNull |-> TRUE]

findUniqueOptimization(rows, driverId) ==
    IF \E row \in rows : row.driverId = driverId
    THEN CHOOSE row \in rows : row.driverId = driverId
    ELSE [driverId |-> NoValue, routeOptimized |-> FALSE]

\* A guard that never finds the route optimized.
servedFromCache_never(forceRecalculate, rows, driverId) == FALSE

\* A guard that serves the stored state to forced calls too.
servedFromCache_ignoresForce(forceRecalculate, rows, driverId) ==
    findUniqueOptimization(rows, driverId).routeOptimized

\* optimizeRoute returns the stored state instead of computing.
servedFromCache(forceRecalculate, rows, driverId) ==
    ~forceRecalculate /\ findUniqueOptimization(rows, driverId).routeOptimized

\* A call without orders that reports success.
emptyResponse_success == [tag |-> "ok", success |-> TRUE, data |-> NullData]

emptyResponse == [tag |-> "ok", success |-> FALSE, data |-> NullData]

\* A cached response that reports the order count of the stored run.
cachedResponse_storedCount(driverId, count, existingOptimization) ==
    [ tag |-> "ok",
      success |-> TRUE,
      data |-> [ driverId |-> driverId,
                 routeOptimized |-> TRUE,
                 totalOrders |-> existingOptimization.optimizationData.totalOrders,
                 optimizedAt |-> existingOptimization.optimizedAt,
                 estimatedDuration |-> existingOptimization.estimatedDuration,
                 estimatedDistance |-> existingOptimization.estimatedDistance,
                 fromCache |-> TRUE ] ]

cachedResponse(driverId, count, existingOptimization) ==
    [ tag |-> "ok",
      success |-> TRUE,
      data |-> [ driverId |-> driverId,
                 routeOptimized |-> TRUE,
                 totalOrders |-> count,
                 optimizedAt |-> existingOptimization.optimizedAt,
                 estimatedDuration |-> existingOptimization.estimatedDuration,
                 estimatedDistance |-> existingOptimization.estimatedDistance,
                 fromCache |-> TRUE ] ]

\* The advanced optimizer without the fallback to the basic ordering.
runOptimization_noFallback(orders, options, env) ==
    IF options.useGoogleMaps /\ Len(orders) > 1
    THEN optimizeRoute(orders,
                       [ algorithm |-> IF options.algorithm = NoValue THEN SERVICE_HYBRID
                                       ELSE options.algorithm,
                         includeTraffic |-> options.includeTraffic,
                         useCoordinates |-> FALSE,
                         priorityWeight |-> 3,
                         distanceWeight |-> 7 ],
                       env)
    ELSE applyBasicOptimizationAlgorithm(orders, NoRun)

\* The advanced optimizer, or the basic ordering when it is switched off,
\* there is one order, or it raises an error.
runOptimization(orders, options, env) ==
    LET advanced == runOptimization_noFallback(orders, options, env)
    IN IF options.useGoogleMaps /\ Len(orders) > 1 /\ advanced.tag = "throws"
       THEN applyBasicOptimizationAlgorithm(orders, advanced.run)
       ELSE advanced

\* A row written with the flag of the column's default.
optimizationRow_notOptimized(driverId, options, optimizationResult, optimizedAt) ==
    [ driverId |-> driverId,
      routeOptimized |-> FALSE,
      optimizedAt |-> optimizedAt,
      estimatedDuration |-> optimizationResult.estimatedDuration,
      estimatedDistance |-> optimizationResult.estimatedDistance,
      optimizationData |->
          [ method |-> optimizationResult.algorithm,
            forceRecalculate |-> options.forceRecalculate,
            includeTraffic |-> IF optimizationResult.metadata.hasIncludeTraffic
                               THEN optimizationResult.metadata.includeTraffic
                               ELSE options.includeTraffic,
            useGoogleMaps |-> options.useGoogleMaps,
            totalOrders |-> optimizationResult.totalOrders,
            optimizationTimestamp |-> optimizedAt,
            realDistanceCalculated |-> optimizationResult.realDistanceCalculated,
            algorithm |-> optimizationResult.metadata.algorithm,
            estimatedImprovement |-> optimizationResult.metadata.estimatedImprovement,
            fallback |-> optimizationResult.metadata.fallback ] ]

\* A row that marks the route optimized only when the result is no fallback.
optimizationRow_degradedNotOptimized(driverId, options, optimizationResult, optimizedAt) ==
    [ optimizationRow_notOptimized(driverId, options, optimizationResult, optimizedAt)
        EXCEPT !.routeOptimized = ~optimizationResult.metadata.fallback ]

optimizationRow(driverId, options, optimizationResult, optimizedAt) ==
    [ driverId |-> driverId,
      routeOptimized |-> TRUE,
      optimizedAt |-> optimizedAt,
      estimatedDuration |-> optimizationResult.estimatedDuration,
      estimatedDistance |-> optimizationResult.estimatedDistance,
      optimizationData |->
          [ method |-> optimizationResult.algorithm,
            forceRecalculate |-> options.forceRecalculate,
            includeTraffic |-> IF optimizationResult.metadata.hasIncludeTraffic
                               THEN optimizationResult.metadata.includeTraffic
                               ELSE options.includeTraffic,
            useGoogleMaps |-> options.useGoogleMaps,
            totalOrders |-> optimizationResult.totalOrders,
            optimizationTimestamp |-> optimizedAt,
            realDistanceCalculated |-> optimizationResult.realDistanceCalculated,
            algorithm |-> optimizationResult.metadata.algorithm,
            estimatedImprovement |-> optimizationResult.metadata.estimatedImprovement,
            fallback |-> optimizationResult.metadata.fallback ] ]

\* A store that inserts a row with every write.
upsertOptimization_insert(rows, row) == rows \cup {row}

\* prisma.routeOptimization.upsert({ where: { driverId } }): one row a driver.
upsertOptimization(rows, row) ==
    { old \in rows : old.driverId # row.driverId } \cup {row}

\* A computed response that is marked as served from the stored state.
optimizedResponse_fromCache(driverId, options, optimizationResult, optimizedAt) ==
    cachedResponse(driverId, optimizationResult.totalOrders,
                   [ optimizedAt |-> optimizedAt,
                     estimatedDuration |-> optimizationResult.estimatedDuration,
                     estimatedDistance |-> optimizationResult.estimatedDistance ])

optimizedResponse(driverId, options, optimizationResult, optimizedAt) ==
    [ tag |-> "ok",
      success |-> TRUE,
      data |-> [ driverId |-> driverId,
                 routeOptimized |-> TRUE,
                 totalOrders |-> optimizationResult.totalOrders,
                 optimizedSequence |-> optimizationResult.optimizedSequence,
                 optimizedAt |-> optimizedAt,
                 estimatedDuration |-> optimizationResult.estimatedDuration,
                 estimatedDistance |-> optimizationResult.estimatedDistance,
                 optimizationMethod |-> optimizationResult.algorithm,
                 includeTraffic |-> options.includeTraffic,
                 realDistanceCalculated |-> optimizationResult.realDistanceCalculated,
                 estimatedImprovement |-> optimizationResult.metadata.estimatedImprovement ] ]

\* getCurrentRoute: the orders are read, then the driver's row; the response
\* carries the row's fields, or false and nulls when there is no row.
getCurrentRoute(driverId, ordersResult, rows) ==
    LET optimizationState == findUniqueOptimization(rows, driverId)
        found == optimizationState.driverId # NoValue
    IN [ tag |-> "ok",
         success |-> TRUE,
         data |-> [ driverId |-> driverId,
                    routeOptimized |-> found /\ optimizationState.routeOptimized,
                    totalOrders |-> ordersResult.count,
                    orders |-> ordersResult.data,
                    optimizedAt |-> IF found THEN optimizationState.optimizedAt ELSE 0,
                    estimatedDuration |-> IF found THEN optimizationState.estimatedDuration
                                          ELSE <<NoValue, 0>>,
                    estimatedDistance |-> IF found THEN optimizationState.estimatedDistance
                                          ELSE <<NoValue, 0>>,
                    hasOptimizationData |-> found ] ]

\* An entry of the log: what was asked, what was answered, what ran, and the
\* driver's row as the operation left it.
observed(ev, request, driverId, options, count, response, run, rows) ==
    [ ev |-> ev, request |-> request, driverId |-> driverId, options |-> options,
      count |-> count, response |-> response, run |-> run,
      stored |-> findUniqueOptimization(rows, driverId) ]

busy == Cardinality({r \in Requests : running[r].pc # "idle"})

freeRequest == CHOOSE r \in Requests : running[r].pc = "idle"

\* optimizeRoute up to the decision to compute: the orders are read, then,
\* unless forced, the stored state; no orders or a stored state end the call.
OptimizeBegin(r, driverId, forceRecalculate) ==
    /\ running[r].pc = "idle"
    /\ r = freeRequest
    /\ Len(svcLog) + busy + 2 <= MaxSvcEvents
    /\ LET ordersResult == getDriverPickedUpOrders(picked[driverId])
           options == optionsOf(forceRecalculate)
           answer(response) ==
               /\ svcLog' = Append(svcLog, observed("answered", r, driverId, options,
                                                    ordersResult.count, response, NoRun,
                                                    optimizations))
               /\ UNCHANGED running
       IN IF ordersResult.count = 0
          THEN answer(emptyResponse)
          ELSE IF servedFromCache(options.forceRecalculate, optimizations, driverId)
          THEN answer(cachedResponse(driverId, ordersResult.count,
                                     findUniqueOptimization(optimizations, driverId)))
          ELSE /\ svcLog' = Append(svcLog, observed("started", r, driverId, options,
                                                    ordersResult.count, NoResult, NoRun,
                                                    optimizations))
               /\ running' = [running EXCEPT ![r] =
                                 [ pc |-> "compute", driverId |-> driverId, options |-> options,
                                   orders |-> ordersResult.data ]]
    /\ UNCHANGED <<picked, optimizations, clock, passed, algVars, geoVars>>

\* The heuristics run against what the providers do, and the time is taken.
\* An error that reaches optimizeRoute's own catch ends the call with
\* 'Failed to optimize route'; a run that enters heuristics without end never
\* gets further.
OptimizeCompute(r) ==
    /\ running[r].pc = "compute"
    /\ \E env \in ServiceEnvs(Len(running[r].orders)) :
          \E optimizationResult \in {runOptimization(running[r].orders, running[r].options, env)} :
          LET req == running[r]
          IN IF optimizationResult.tag = "throws"
             THEN /\ running' = [running EXCEPT ![r] = idleRequest]
                  /\ svcLog' = Append(svcLog,
                         observed("ended", r, req.driverId, req.options, Len(req.orders),
                                  [tag |-> "throws"], optimizationResult.run, optimizations))
             ELSE /\ running' = [running EXCEPT ![r] =
                         [ pc |-> IF optimizationResult.tag = "ok" THEN "save" ELSE "stuck",
                           driverId |-> req.driverId,
                           options |-> req.options,
                           orders |-> req.orders,
                           env |-> env,
                           optimizationResult |-> optimizationResult,
                           optimizedAt |-> clock ]]
                  /\ UNCHANGED svcLog
    /\ clock' = clock + 1
    /\ UNCHANGED <<picked, optimizations, passed, algVars, geoVars>>

\* The state is stored and the response returned.
OptimizeSave(r) ==
    /\ running[r].pc = "save"
    /\ LET req == running[r]
       IN /\ optimizations' = upsertOptimization(optimizations,
                 optimizationRow(req.driverId, req.options, req.optimizationResult,
                                 req.optimizedAt))
          /\ svcLog' = Append(svcLog,
                 observed("ended", r, req.driverId, req.options, Len(req.orders),
                          optimizedResponse(req.driverId, req.options,
                                            req.optimizationResult, req.optimizedAt),
                          req.optimizationResult.run, optimizations'))
    /\ running' = [running EXCEPT ![r] = idleRequest]
    /\ UNCHANGED <<picked, clock, passed, algVars, geoVars>>

\* A clear that deletes the rows of every driver.
clearRouteOptimization_everyDriver(driverId) ==
    /\ Len(svcLog) + busy + 1 <= MaxSvcEvents
    /\ optimizations' = {}
    /\ svcLog' = Append(svcLog, observed("clear", NoValue, driverId, NoValue, 0,
                                         [tag |-> "ok", success |-> TRUE], NoRun,
                                         optimizations'))
    /\ UNCHANGED <<picked, running, clock, passed, algVars, geoVars>>

\* clearRouteOptimization: the driver's row is deleted; no row is no error.
clearRouteOptimization(driverId) ==
    /\ Len(svcLog) + busy + 1 <= MaxSvcEvents
    /\ optimizations' = { row \in optimizations : row.driverId # driverId }
    /\ svcLog' = Append(svcLog, observed("clear", NoValue, driverId, NoValue, 0,
                                         [tag |-> "ok", success |-> TRUE], NoRun,
                                         optimizations'))
    /\ UNCHANGED <<picked, running, clock, passed, algVars, geoVars>>

\* Orders are picked up or delivered outside the RouteService.
PickedUpOrDelivered(driverId, count) ==
    /\ count # picked[driverId]
    /\ Len(svcLog) + busy + 1 <= MaxSvcEvents
    /\ picked' = [picked EXCEPT ![driverId] = count]
    /\ svcLog' = Append(svcLog, observed("orders", NoValue, driverId, NoValue, count,
                                         NoResult, NoRun, optimizations))
    /\ UNCHANGED <<optimizations, running, clock, passed, algVars, geoVars>>

InitSvc ==
    /\ picked \in [{"d1"} -> PickedCounts]
    /\ optimizations = {}
    /\ running = [r \in Requests |-> idleRequest]
    /\ clock = 1
    /\ passed \in CallerOptions
    /\ svcLog = <<>>
    /\ algIdle
    /\ geoIdle

NextSvc ==
    \/ \E r \in Requests, driverId \in Drivers, forceRecalculate \in BOOLEAN :
          OptimizeBegin(r, driverId, forceRecalculate)
    \/ \E r \in Requests : OptimizeCompute(r)
    \/ \E r \in Requests : OptimizeSave(r)
    \/ \E driverId \in Drivers : clearRouteOptimization(driverId)
    \/ \E driverId \in Drivers, count \in PickedCounts : PickedUpOrDelivered(driverId, count)

Spec == InitSvc /\ [][NextSvc]_vars

\* Two drivers, each holding orders, served by one RouteService.
InitTwo ==
    /\ picked = [driverId \in {"d1", "d2"} |-> IF driverId = "d1" THEN 1 ELSE 2]
    /\ optimizations = {}
    /\ running = [r \in Requests |-> idleRequest]
    /\ clock = 1
    /\ passed \in { o \in CallerOptions : o.algorithm = NoValue /\ ~o.includeTraffic }
    /\ svcLog = <<>>
    /\ algIdle
    /\ geoIdle

NextTwo ==
    \/ \E r \in Requests, driverId \in Drivers, forceRecalculate \in BOOLEAN :
          OptimizeBegin(r, driverId, forceRecalculate)
    \/ \E r \in Requests : OptimizeCompute(r)
    \/ \E r \in Requests : OptimizeSave(r)
    \/ \E driverId \in Drivers : clearRouteOptimization(driverId)

SpecTwo == InitTwo /\ [][NextTwo]_vars

(***************************************************************************)
(* Properties of the RouteService (Spec), read off the log.                *)
(***************************************************************************)
svcIndex == 1..Len(svcLog)

\* The entry at which optimizeRoute read the orders and the stored state.
isBegin(k) == svcLog[k].ev \in {"answered", "started"}

\* The entry at which an optimizeRoute call returned.
isReturn(k) == svcLog[k].ev \in {"answered", "ended"}

\* The driver's row before entry k.
storedBefore(k) ==
    LET earlier == { j \in 1..(k - 1) : svcLog[j].driverId = svcLog[k].driverId }
    IN IF earlier = {} THEN findUniqueOptimization({}, svcLog[k].driverId)
       ELSE svcLog[CHOOSE j \in earlier : \A i \in earlier : i <= j].stored

\* Entry k1 is a call that stored its state, entry k2 a later call for the
\* same driver that does not force, finds orders, with no clear in between.
storedThenAsked(k1, k2) ==
    /\ k1 < k2
    /\ svcLog[k1].ev = "ended"
    /\ svcLog[k1].response.tag = "ok"
    /\ isBegin(k2)
    /\ svcLog[k2].driverId = svcLog[k1].driverId
    /\ ~svcLog[k2].options.forceRecalculate
    /\ svcLog[k2].count >= 1
    /\ \A k \in k1..k2 : ~(svcLog[k].ev = "clear" /\ svcLog[k].driverId = svcLog[k1].driverId)

\* C1: once an optimize call has stored its state, a later call for the
\* driver that does not force (orders present, no clear in between) is
\* answered fromCache=true at the check of the stored state: no heuristic is
\* entered, no provider is called, and the driver's row is left as it was.
C1_StoredStateServed ==
    \A k1, k2 \in svcIndex :
        storedThenAsked(k1, k2) =>
            /\ svcLog[k2].ev = "answered"
            /\ svcLog[k2].response.success
            /\ svcLog[k2].response.data.fromCache
            /\ svcLog[k2].run = NoRun
            /\ svcLog[k2].stored = storedBefore(k2)
            /\ svcLog[k2].stored.routeOptimized

C1_Witness ==
    \E k1, k2 \in svcIndex :
        /\ storedThenAsked(k1, k2)
        /\ svcLog[k1].run.geoCalls > 0
        /\ svcLog[k2].ev = "answered"
        /\ svcLog[k2].response.data.fromCache
        /\ svcLog[k2].stored = svcLog[k1].stored

\* C2: the second of two non-forced calls on the same orders answers with the
\* first response, field for field, and fromCache=true on top.
C2_SecondResponseIdentical ==
    \A k1, k2 \in svcIndex :
        (/\ storedThenAsked(k1, k2)
         /\ ~svcLog[k1].options.forceRecalculate
         /\ svcLog[k2].count = svcLog[k1].count
         /\ isReturn(k2)) =>
            LET first == svcLog[k1].response.data
                second == svcLog[k2].response.data
            IN /\ DOMAIN second = DOMAIN first \cup {"fromCache"}
               /\ \A f \in DOMAIN first : second[f] = first[f]
               /\ second.fromCache

\* C3: with at least one order, whatever the providers do (geocoding fails
\* or finds no match, the matrix call fails or answers cells with errors)
\* and whatever error a heuristic raises, the optimizer's run comes to an
\* end and the call returns success.
C3_NeverFails ==
    /\ \A k \in svcIndex :
          (isReturn(k) /\ svcLog[k].count >= 1) =>
              svcLog[k].response.tag = "ok" /\ svcLog[k].response.success
    /\ \A r \in Requests : running[r].pc # "stuck"

\* The matrix call fails inside nearest-neighbor, which degrades; the
\* response is a success.
C3_Witness ==
    \E k \in svcIndex :
        /\ svcLog[k].ev = "ended"
        /\ svcLog[k].response.tag = "ok"
        /\ svcLog[k].response.success
        /\ svcLog[k].run.entered = <<"nearestNeighborOptimization", "priorityBasedOptimization">>
        /\ svcLog[k].run.mxCalls = 1

\* The label under which each routine reports its sequence.
labelOf(routine) ==
    CASE routine = "priorityBasedOptimization" -> PRIORITY_BASED
      [] routine = "priorityWithDistanceOptimization" -> "PRIORITY_WITH_DISTANCE"
      [] routine = "nearestNeighborOptimization" -> NEAREST_NEIGHBOR
      [] routine = "geneticAlgorithmOptimization" -> GENETIC_ALGORITHM
      [] routine = "applyBasicOptimizationAlgorithm" -> "PRIORITY_BASED"
      [] OTHER -> NoValue

\* C9: every successful response carries the method that produced the
\* sequence and a real-distance flag that is true exactly when matrix data
\* ordered the sequence.
C9_MethodAndFlagCarried ==
    \A k \in svcIndex :
        (isReturn(k) /\ svcLog[k].response.tag = "ok" /\ svcLog[k].response.success) =>
            LET data == svcLog[k].response.data
                entered == svcLog[k].run.entered
            IN /\ {"optimizationMethod", "realDistanceCalculated"} \subseteq DOMAIN data
               /\ data.realDistanceCalculated = svcLog[k].run.usedMatrix
               /\ entered # <<>> => data.optimizationMethod = labelOf(entered[Len(entered)])

\* Entry k is an optimizeRoute call for a driver who holds no picked-up order.
askedWithoutOrders(k) == isBegin(k) /\ svcLog[k].count = 0

\* C13: optimize for a driver with zero picked-up orders returns a failure
\* (success = false) without entering a heuristic or calling a provider, and
\* leaves the driver's stored state as it was, absent or stored, whether
\* forceRecalculate is set or not.
C13_NoOrdersFails ==
    \A k \in svcIndex :
        askedWithoutOrders(k) =>
            /\ svcLog[k].ev = "answered"
            /\ svcLog[k].response.tag = "ok"
            /\ ~svcLog[k].response.success
            /\ svcLog[k].response.data = NullData
            /\ svcLog[k].run = NoRun
            /\ svcLog[k].stored = storedBefore(k)

\* A forced call finds no orders and a stored state, which stays.
C13_Witness ==
    \E k \in svcIndex :
        /\ askedWithoutOrders(k)
        /\ svcLog[k].options.forceRecalculate
        /\ storedBefore(k).routeOptimized
        /\ svcLog[k].stored = storedBefore(k)
        /\ ~svcLog[k].response.success

\* The entries at which the store of a driver was written: an optimizeRoute
\* call that saved its state, or a clear.
writesOf(driverId) ==
    { k \in svcIndex :
        /\ svcLog[k].driverId = driverId
        /\ \/ svcLog[k].ev = "clear"
           \/ svcLog[k].ev = "ended" /\ svcLog[k].response.tag = "ok" }

lastWriteOf(driverId) ==
    CHOOSE k \in writesOf(driverId) : \A j \in writesOf(driverId) : j <= k

rowsOf(driverId) == { row \in optimizations : row.driverId = driverId }

\* Every field of the row is the one the optimizeRoute call of entry k wrote.
writtenBy(row, k) ==
    LET data == svcLog[k].response.data
    IN /\ row.routeOptimized
       /\ row.optimizedAt = data.optimizedAt
       /\ row.estimatedDuration = data.estimatedDuration
       /\ row.estimatedDistance = data.estimatedDistance
       /\ row.optimizationData.method = data.optimizationMethod
       /\ row.optimizationData.optimizationTimestamp = data.optimizedAt
       /\ row.optimizationData.forceRecalculate = svcLog[k].options.forceRecalculate
       /\ row.optimizationData.useGoogleMaps = svcLog[k].options.useGoogleMaps
       /\ row.optimizationData.totalOrders = data.totalOrders
       /\ row.optimizationData.realDistanceCalculated = data.realDistanceCalculated
       /\ row.optimizationData.estimatedImprovement = data.estimatedImprovement
       /\ row = svcLog[k].stored

\* C14: whatever the interleaving of optimize calls, forced or not, and clear
\* calls for one driver, the store holds at most one row for the driver, all
\* fields of the row come from one optimize call, the last that wrote (no
\* row after a clear that came last), and no call ends in an error.
C14_LastWriterWins ==
    /\ \A driverId \in Drivers :
          /\ Cardinality(rowsOf(driverId)) <= 1
          /\ IF writesOf(driverId) = {} THEN rowsOf(driverId) = {}
             ELSE IF svcLog[lastWriteOf(driverId)].ev = "clear" THEN rowsOf(driverId) = {}
             ELSE \E row \in rowsOf(driverId) : writtenBy(row, lastWriteOf(driverId))
    /\ \A k \in svcIndex :
          (isReturn(k) \/ svcLog[k].ev = "clear") => svcLog[k].response.tag = "ok"

\* Two calls overlap, the one that took the time later saves first: the row
\* is the one of the call that saved last, with the earlier optimizedAt.
C14_Witness ==
    \E b1, b2, k1, k2 \in svcIndex :
        /\ b1 < b2 /\ b2 < k1 /\ k1 < k2
        /\ svcLog[b1].ev = "started" /\ svcLog[b2].ev = "started"
        /\ svcLog[k1].ev = "ended" /\ svcLog[k2].ev = "ended"
        /\ svcLog[k1].request # svcLog[k2].request
        /\ svcLog[k2].response.data.optimizedAt < svcLog[k1].response.data.optimizedAt
        /\ k2 = Len(svcLog)
        /\ \E row \in optimizations : writtenBy(row, k2)
        /\ Cardinality(optimizations) = 1

\* The entry at which the optimizeRoute call begun at entry k returned; 0
\* while it has not.
returnOf(k) ==
    IF svcLog[k].ev = "answered" THEN k
    ELSE LET ends == { e \in (k + 1)..Len(svcLog) :
                          svcLog[e].ev = "ended" /\ svcLog[e].request = svcLog[k].request }
         IN IF ends = {} THEN 0 ELSE CHOOSE e \in ends : \A j \in ends : e <= j

\* Entry k is a forced call for a driver with a stored state and orders.
forcedOnOptimized(k) ==
    /\ isBegin(k)
    /\ svcLog[k].options.forceRecalculate
    /\ svcLog[k].count >= 1
    /\ storedBefore(k).routeOptimized

\* C15: a forced optimize call for a driver that is already optimized and
\* holds at least one picked-up order is never answered fromCache: it runs a
\* heuristic again and overwrites the driver's one row with its own, new
\* optimizedAt, estimates and metadata; there is never a second row.
C15_ForcedRecomputes ==
    /\ \A driverId \in Drivers : Cardinality(rowsOf(driverId)) <= 1
    /\ \A k \in svcIndex :
          forcedOnOptimized(k) =>
              /\ svcLog[k].ev = "started"
              /\ returnOf(k) # 0 =>
                    LET e == returnOf(k)
                        data == svcLog[e].response.data
                    IN /\ svcLog[e].response.tag = "ok"
                       /\ svcLog[e].response.success
                       /\ "fromCache" \notin DOMAIN data
                       /\ svcLog[e].run.entered # <<>>
                       /\ writtenBy(svcLog[e].stored, e)
                       /\ data.optimizedAt > storedBefore(k).optimizedAt

\* A route is optimized, then optimized again by force: the row carries the
\* second call's time.
C15_Witness ==
    \E k \in svcIndex :
        /\ forcedOnOptimized(k)
        /\ returnOf(k) # 0
        /\ svcLog[returnOf(k)].stored.optimizedAt > storedBefore(k).optimizedAt
        /\ svcLog[returnOf(k)].stored.optimizationData.forceRecalculate
        /\ ~storedBefore(k).optimizationData.forceRecalculate
        /\ optimizations = {svcLog[returnOf(k)].stored}

\* What getCurrentRoute reports of the driver in this state, whatever orders
\* it has read.
reportedOptimized(driverId) ==
    { getCurrentRoute(driverId, getDriverPickedUpOrders(count), optimizations).data.routeOptimized :
        count \in PickedCounts }

\* Entry k is an optimizeRoute call that returned a failure.
endedInFailure(k) ==
    /\ isReturn(k)
    /\ \/ svcLog[k].response.tag = "throws"
       \/ svcLog[k].response.tag = "ok" /\ ~svcLog[k].response.success

\* C16: in every state a driver has no row exactly when no optimize call has
\* written the driver's state since the start or since the driver's last
\* clear; no row is ever stored with routeOptimized = false; an optimize
\* call that ends in failure leaves the row as it was, present or absent;
\* so getCurrentRoute reports routeOptimized = true exactly when a row exists.
C16_RowMeansOptimized ==
    /\ \A driverId \in Drivers :
          /\ rowsOf(driverId) = {} <=>
                \/ writesOf(driverId) = {}
                \/ svcLog[lastWriteOf(driverId)].ev = "clear"
          /\ reportedOptimized(driverId) = {rowsOf(driverId) # {}}
    /\ \A row \in optimizations : row.routeOptimized
    /\ \A k \in svcIndex : endedInFailure(k) => svcLog[k].stored = storedBefore(k)

\* A state is written and a later call fails for want of orders: the row is
\* still there and getCurrentRoute reports true.
C16_Witness ==
    \E k1, k2 \in svcIndex :
        /\ k1 < k2
        /\ svcLog[k1].ev = "ended" /\ svcLog[k1].stored.routeOptimized
        /\ endedInFailure(k2)
        /\ k2 = Len(svcLog)
        /\ optimizations = {svcLog[k1].stored}
        /\ \A driverId \in Drivers : reportedOptimized(driverId) = {TRUE}

(***************************************************************************)
(* Properties of the RouteService with two drivers (SpecTwo).              *)
(***************************************************************************)
\* This step is a clear of the driver.
clearStep(driverId) ==
    /\ Len(svcLog') = Len(svcLog) + 1
    /\ svcLog'[Len(svcLog')].ev = "clear"
    /\ svcLog'[Len(svcLog')].driverId = driverId

\* A clear takes the driver's row away, changes nothing when there is none,
\* succeeds, and leaves the rows of the other drivers alone.
clearsOnlyOwn ==
    \A driverId \in Drivers :
        clearStep(driverId) =>
            /\ { row \in optimizations' : row.driverId = driverId } = {}
            /\ rowsOf(driverId) = {} => optimizations' = optimizations
            /\ \A row \in optimizations : row.driverId # driverId => row \in optimizations'
            /\ optimizations' \subseteq optimizations
            /\ svcLog'[Len(svcLog')].response = [tag |-> "ok", success |-> TRUE]

\* After a clear that was the last write of the driver, getCurrentRoute
\* reports routeOptimized = false.
reportedClear ==
    \A driverId \in Drivers :
        (writesOf(driverId) # {} /\ svcLog[lastWriteOf(driverId)].ev = "clear")
            => reportedOptimized(driverId) = {FALSE}

\* The next optimize call for the driver after a clear, with orders and
\* nothing saved in between, computes, forced or not.
recomputedAfterClear ==
    \A c, k \in svcIndex :
        (/\ svcLog[c].ev = "clear"
         /\ c < k
         /\ isBegin(k)
         /\ svcLog[k].driverId = svcLog[c].driverId
         /\ svcLog[k].count >= 1
         /\ \A j \in (c + 1)..(k - 1) : j \notin writesOf(svcLog[c].driverId))
            => /\ svcLog[k].ev = "started"
               /\ returnOf(k) # 0 =>
                     /\ "fromCache" \notin DOMAIN svcLog[returnOf(k)].response.data
                     /\ svcLog[returnOf(k)].run.entered # <<>>

\* C17: clear(driverId) removes the driver's state, so that getCurrentRoute
\* afterwards reports routeOptimized = false and the next non-forced optimize
\* recomputes instead of answering fromCache; clear on a driver without
\* state succeeds and changes nothing (twice is as once); clear never
\* changes another driver's state.
C17_ClearOnlyOwnState ==
    /\ [][clearsOnlyOwn]_vars
    /\ [](reportedClear /\ recomputedAfterClear)

\* Both drivers are optimized and one is cleared: the other's row is all
\* that is left, and getCurrentRoute reports false for the cleared driver.
C17_Witness ==
    \E c \in svcIndex :
        /\ svcLog[c].ev = "clear"
        /\ svcLog[c].driverId = "d1"
        /\ storedBefore(c).routeOptimized
        /\ c = Len(svcLog)
        /\ \E row \in optimizations : row.driverId = "d2"
        /\ rowsOf("d1") = {}
        /\ reportedOptimized("d1") = {FALSE}
        /\ reportedOptimized("d2") = {TRUE}

(***************************************************************************)
(* The selector on its own: every order count and every requested name.    *)
(***************************************************************************)
InitSel ==
    /\ algIn \in [kind : {"select"}, orderCount : 1..MaxCount, requested : RequestedNames]
    /\ algOut = NoResult
    /\ geoIdle
    /\ svcIdle

RunSelect ==
    /\ algIn.kind = "select"
    /\ algOut = NoResult
    /\ LET sel == selectOptimalAlgorithm(algIn.orderCount, algorithmOption(algIn.requested))
       IN algOut' = [tag |-> "ok", selected |-> sel, routine |-> routineFor(sel, algIn.orderCount)]
    /\ UNCHANGED <<algIn, geoVars, svcVars>>

NextSel == RunSelect

SpecSel == InitSel /\ [][NextSel]_vars

\* C7: the selector is the decision table.  With no heuristic named it gives
\* Priority-Only for 2-3 orders, Priority-Weighted-Nearest-Neighbor for 4-10
\* and the Multi-Start routine for every count of 11 or more (above 25 the
\* or_tools name, whose routine is the Multi-Start one); a named heuristic is
\* returned for every order count.
C7_SelectorTable ==
    (algIn.kind = "select" /\ algOut.tag = "ok") =>
        LET n == algIn.orderCount
            req == algIn.requested
        IN /\ (req = NoValue /\ n \in 2..3) =>
                  /\ algOut.selected = PRIORITY_BASED
                  /\ algOut.routine = "priorityBasedOptimization"
           /\ (req = NoValue /\ n \in 4..10) =>
                  /\ algOut.selected = NEAREST_NEIGHBOR
                  /\ algOut.routine = "nearestNeighborOptimization"
           /\ (req = NoValue /\ n >= 11) =>
                  /\ algOut.routine = "geneticAlgorithmOptimization"
                  /\ (n <= 25 => algOut.selected = GENETIC_ALGORITHM)
           /\ (req \in {PRIORITY_BASED, NEAREST_NEIGHBOR, GENETIC_ALGORITHM, OR_TOOLS_VRP}) =>
                  algOut.selected = req

C7_Witness ==
    /\ algIn.kind = "select"
    /\ algOut.tag = "ok"
    /\ algIn.requested = NoValue
    /\ algIn.orderCount = 26
    /\ algOut.routine = "geneticAlgorithmOptimization"

\* The heuristic the size-based decision table leads to for a count: the
\* selector's choice with no heuristic named, followed through the switch.
tableRoutine(orderCount) ==
    routineFor(selectOptimalAlgorithm(orderCount, HYBRID), orderCount)

\* C27: with the service's default name 'HYBRID' the selector returns the name
\* unchanged, the switch has no case for it and the hybrid dispatcher runs; for
\* every count of 2 or more the heuristic it enters is the one the size-based
\* table leads to: Priority-Only up to 3 orders, Priority-Weighted
\* Nearest-Neighbor up to 10, the Multi-Start routine above.
C27_HybridAgreesWithTable ==
    (algIn.kind = "select" /\ algOut.tag = "ok"
        /\ algIn.requested = SERVICE_HYBRID /\ algIn.orderCount >= 2) =>
        /\ algOut.selected = SERVICE_HYBRID
        /\ algOut.selected \notin algorithms
        /\ algOut.routine = tableRoutine(algIn.orderCount)
        /\ algOut.routine =
              IF algIn.orderCount <= 3 THEN "priorityBasedOptimization"
              ELSE IF algIn.orderCount <= 10 THEN "nearestNeighborOptimization"
              ELSE "geneticAlgorithmOptimization"

C27_Witness ==
    /\ algIn.kind = "select"
    /\ algOut.tag = "ok"
    /\ algIn.requested = SERVICE_HYBRID
    /\ algIn.orderCount = 27
    /\ selectOptimalAlgorithm(27, HYBRID) = OR_TOOLS_VRP
    /\ algOut.routine = "geneticAlgorithmOptimization"

\* One driver holding two orders, callers that leave the provider switched
\* on and ask for no traffic: the calls that reach the advanced optimizer.
InitRepeat ==
    /\ picked = [driverId \in {"d1"} |-> 2]
    /\ optimizations = {}
    /\ running = [r \in Requests |-> idleRequest]
    /\ clock = 1
    /\ passed \in { o \in CallerOptions : o.useGoogleMaps /\ ~o.includeTraffic }
    /\ svcLog = <<>>
    /\ algIdle
    /\ geoIdle

SpecRepeat == InitRepeat /\ [][NextSvc]_vars

\* Entry k is a change of the driver's picked-up orders that leaves at
\* least one, between the call that stored its state and the later call.
ordersChangedBetween(k1, k, k2) ==
    /\ k1 < k
    /\ k < k2
    /\ svcLog[k].ev = "orders"
    /\ svcLog[k].driverId = svcLog[k1].driverId
    /\ svcLog[k].count >= 1

\* The order count of the driver when entry k is written: that of the last
\* change before it.
countBefore(k) ==
    LET changes == { j \in 1..(k - 1) : svcLog[j].ev = "orders"
                                          /\ svcLog[j].driverId = svcLog[k].driverId }
    IN svcLog[CHOOSE j \in changes : \A i \in changes : i <= j].count

\* No call wrote the driver's row between entries k1 and k2.
noWriteBetween(k1, k2) ==
    \A k \in (k1 + 1)..(k2 - 1) :
        ~(svcLog[k].ev = "ended" /\ svcLog[k].response.tag = "ok"
            /\ svcLog[k].driverId = svcLog[k1].driverId)

\* C28: the stored state is kept by driver and a change of the driver's
\* orders does not touch it: after a call has stored its state and picked-up
\* orders were added or removed (one at least remains, no clear), a call that
\* does not force is answered fromCache=true with optimizedAt,
\* estimatedDuration and estimatedDistance of the row stored for the earlier
\* orders, and with the present order count as totalOrders; the row stays.
C28_OrderChangeKeepsState ==
    \A k1, k, k2 \in svcIndex :
        (storedThenAsked(k1, k2) /\ ordersChangedBetween(k1, k, k2)) =>
            \E stored \in {storedBefore(k2)} :
                /\ svcLog[k2].ev = "answered"
                /\ svcLog[k2].response.data.fromCache
                /\ svcLog[k2].response.data.optimizedAt = stored.optimizedAt
                /\ svcLog[k2].response.data.estimatedDuration = stored.estimatedDuration
                /\ svcLog[k2].response.data.estimatedDistance = stored.estimatedDistance
                /\ svcLog[k2].response.data.totalOrders = countBefore(k2)
                /\ svcLog[k2].stored = stored
                /\ noWriteBetween(k1, k2) =>
                       /\ stored = svcLog[k1].stored
                       /\ stored.optimizedAt = svcLog[k1].response.data.optimizedAt
                       /\ stored.estimatedDuration = svcLog[k1].response.data.estimatedDuration
                       /\ stored.estimatedDistance = svcLog[k1].response.data.estimatedDistance

\* Two orders are optimized, one is delivered, and the next call reports one
\* order with the duration and distance computed for two.
C28_Witness ==
    \E k1, k, k2 \in svcIndex :
        /\ storedThenAsked(k1, k2)
        /\ ordersChangedBetween(k1, k, k2)
        /\ noWriteBetween(k1, k2)
        /\ svcLog[k1].count = 2
        /\ svcLog[k1].stored.optimizationData.totalOrders = 2
        /\ svcLog[k2].ev = "answered"
        /\ svcLog[k2].response.data.fromCache
        /\ svcLog[k2].response.data.totalOrders = 1
        /\ svcLog[k2].response.data.estimatedDistance = svcLog[k1].response.data.estimatedDistance

\* Entries k1 and k2 begin two calls for one driver that do not force: the
\* driver is not optimized when the first begins, and the second begins
\* while the first has not returned.
overlapping(k1, k2) ==
    /\ k1 < k2
    /\ svcLog[k1].ev = "started"
    /\ isBegin(k2)
    /\ svcLog[k2].driverId = svcLog[k1].driverId
    /\ ~svcLog[k1].options.forceRecalculate
    /\ ~svcLog[k2].options.forceRecalculate
    /\ svcLog[k2].count >= 1
    /\ ~storedBefore(k1).routeOptimized
    /\ returnOf(k1) = 0 \/ returnOf(k1) > k2

\* The call that returned at entry e computed: its response is not marked
\* fromCache, the row it left is its own, and with two orders or more and
\* the provider switched on it entered a heuristic.
computedAt(e) ==
    /\ svcLog[e].ev = "ended"
    /\ svcLog[e].response.tag = "ok"
    /\ "fromCache" \notin DOMAIN svcLog[e].response.data
    /\ writtenBy(svcLog[e].stored, e)
    /\ (svcLog[e].count >= 2 /\ svcLog[e].options.useGoogleMaps) =>
           svcLog[e].run.entered # <<>>

fellBackAt(e) ==
    /\ svcLog[e].ev = "ended"
    /\ svcLog[e].response.tag = "ok"
    /\ Len(svcLog[e].run.entered) >= 2
    /\ svcLog[e].run.entered[Len(svcLog[e].run.entered)] = "applyBasicOptimizationAlgorithm"

\* The call that returned at entry e entered a heuristic that uses
\* distances and came out with the priority ordering.
degradedInsideAt(e) ==
    /\ svcLog[e].ev = "ended"
    /\ svcLog[e].response.tag = "ok"
    /\ Len(svcLog[e].run.entered) >= 2
    /\ svcLog[e].run.entered[1] \in {"nearestNeighborOptimization", "geneticAlgorithmOptimization"}
    /\ svcLog[e].run.entered[Len(svcLog[e].run.entered)] = "priorityBasedOptimization"

degradedAt(e) == fellBackAt(e) \/ degradedInsideAt(e)

\* C30: a degraded result is stored like a full one.  When the advanced
\* optimizer raises and the service orders by priority, or a heuristic
\* falls back to the priority ordering, the call returns success and the
\* driver's row is written with routeOptimized = true; a later call that
\* does not force (orders present, no clear) is answered fromCache=true from
\* the row, without a heuristic, a geocoding or a matrix call; a forced call,
\* or a call after a clear, computes again.
C30_DegradedStateServed ==
    \A e \in svcIndex :
        degradedAt(e) =>
            /\ svcLog[e].response.success
            /\ svcLog[e].response.data.routeOptimized
            /\ svcLog[e].stored.routeOptimized
            /\ writtenBy(svcLog[e].stored, e)
            /\ ~svcLog[e].stored.optimizationData.realDistanceCalculated
            /\ \A k2 \in svcIndex :
                  /\ storedThenAsked(e, k2) =>
                        /\ svcLog[k2].ev = "answered"
                        /\ svcLog[k2].response.data.fromCache
                        /\ svcLog[k2].run = NoRun
                        /\ svcLog[k2].stored = storedBefore(k2)
                        /\ noWriteBetween(e, k2) => svcLog[k2].stored = svcLog[e].stored
                  /\ (/\ e < k2
                      /\ isBegin(k2)
                      /\ svcLog[k2].driverId = svcLog[e].driverId
                      /\ svcLog[k2].count >= 1
                      /\ svcLog[k2].options.forceRecalculate
                           \/ ~storedBefore(k2).routeOptimized) =>
                        svcLog[k2].ev = "started"

\* Every heuristic raises, the service orders two orders by priority and
\* stores the row; the next call is answered from it.
C30_Witness ==
    \E e, k2 \in svcIndex :
        /\ fellBackAt(e)
        /\ storedThenAsked(e, k2)
        /\ noWriteBetween(e, k2)
        /\ svcLog[e].stored.optimizationData.fallback
        /\ svcLog[k2].ev = "answered"
        /\ svcLog[k2].response.data.fromCache
        /\ svcLog[k2].response.data.estimatedDistance = <<"km", 10>>
        /\ svcLog[k2].stored = svcLog[e].stored

====
